---- MODULE Spec2Model ----
(***************************************************************************)
(* Escrow: pools of vaults keyed by an owner badge, and Allowance NFTs     *)
(* that let their holder withdraw from a pool.  Model of src/src/lib.rs    *)
(* and src/src/token_quantity.rs.                                          *)
(*                                                                         *)
(* Conventions.  Option<T> is a set with at most one element: None is {}   *)
(* and Some(x) is {x}.  A Decimal is modelled by an integer (whole units), *)
(* so the "must be a whole number" conversions of the code always succeed  *)
(* on non-negative values.  A KeyValueStore is a function whose DOMAIN is  *)
(* the set of keys that have been inserted.  A transaction that panics     *)
(* leaves the ledger unchanged; only its outcome is recorded, in `last`.   *)
(***************************************************************************)
EXTENDS Integers, FiniteSets, Sequences, TLC

(* ------------------------------ bounds --------------------------------- *)

\* Largest fungible amount a single vault may hold, a bucket may carry and
\* an allowance may be minted for.
MaxAmount == 2

\* Non-fungible local ids of the non-fungible resource are 1..MaxId.
MaxId == 2

\* The ledger clock runs over 0..MaxTime.
MaxTime == 2

\* Offerings are priced at 1..MaxPrice XRD per MEME.
MaxPrice == 2

\* A MockDex's garbage_heap holds at most MaxGarbage spent vaults.
MaxGarbage == 2

(* ----------------------------- universe -------------------------------- *)

\* Owner badges (NonFungibleGlobalIds) that key the pools.
Owners == {"alice", "bob"}

\* Resource addresses: XRD is fungible, "NFT" is a non-fungible resource.
XRD == "XRD"

NFT == "NFT"

Resources == {XRD, NFT}

\* The token traded for XRD on the MockDex components.
MEME == "MEME"

is_fungible(resource) == resource \in {XRD, MEME}

NfIds == 1..MaxId

\* Local ids of Allowance NFTs (RUIDs in the code: never reused).
AllowanceIds == {"a1", "a2"}

\* The component address of this Escrow instance.
ThisEscrow == "escrow"

(* ------------------------------ Option --------------------------------- *)

None == {}

Some(x) == {x}

is_none(opt) == opt = {}

is_some(opt) == opt # {}

unwrap(opt) == CHOOSE x \in opt : TRUE

\* Option<number>::unwrap_or_default()
unwrap_or_default(opt) == IF opt = {} THEN 0 ELSE unwrap(opt)

\* util::length_of_option_set
length_of_option_set(optset) == IF optset = {} THEN 0 ELSE Cardinality(unwrap(optset))

(* --------------------------- TokenQuantity ----------------------------- *)

\* TokenQuantity::Fungible(dec)
Fungible(dec) ==
    [tag |-> "Fungible", dec |-> dec, nflids |-> None, amount |-> None]

\* TokenQuantity::NonFungible(nflids : Option<IndexSet>, amount : Option<u64>)
NonFungible(nflids, amount) ==
    [tag |-> "NonFungible", dec |-> 0, nflids |-> nflids, amount |-> amount]

\* TokenQuantity::to_amount
to_amount(q) ==
    IF q.tag = "Fungible" THEN q.dec
    ELSE unwrap_or_default(q.amount) + length_of_option_set(q.nflids)

\* TokenQuantity::is_zero
is_zero(q) ==
    IF q.tag = "Fungible" THEN q.dec = 0
    ELSE unwrap_or_default(q.amount) = 0 /\ length_of_option_set(q.nflids) = 0

\* TokenQuantity::extract_max_values: (Option<IndexSet>, Option<Decimal>)
extract_max_values(q) ==
    IF q.tag = "Fungible"
    THEN [nflids |-> None, amount |-> Some(q.dec)]
    ELSE [nflids |-> q.nflids, amount |-> q.amount]

(* ------------------------------- state --------------------------------- *)

VARIABLES
    pools,       \* Escrow.pools : owner badge -> Pool
    allowances,  \* non-fungible data of the Allowance NFTs that exist
    burned,      \* local ids of the Allowance NFTs that have been burned
    now,         \* the ledger clock read by unix_time_now()
    used,        \* per Allowance NFT: when it was last consumed (history)
    last,        \* receipt of the last transaction
    dexes        \* the MockDex components: component address -> state

vars == <<pools, allowances, burned, now, used, last, dexes>>

\* The resource address of the Allowance NFTs of the pool of `owner`
\* (each pool creates its own resource in get_or_add_pool).
allowance_badge(owner) == <<"allowance", owner>>

\* A Vault of a fungible resource holds an amount, a Vault of a
\* non-fungible resource holds a set of local ids.
new_vault == [amount |-> 0, ids |-> {}]

vault_amount(resource, v) ==
    IF is_fungible(resource) THEN v.amount ELSE Cardinality(v.ids)

\* A Bucket: the resource it holds and its contents.
bucket_of(resource, amount, ids) ==
    [resource |-> resource, amount |-> amount, ids |-> ids]

bucket_amount(b) ==
    IF is_fungible(b.resource) THEN b.amount ELSE Cardinality(b.ids)

new_pool(owner) ==
    [allowance_badge_res |-> allowance_badge(owner),
     trusted_nfgids |-> << >>,
     trusted_res |-> << >>,
     vaults |-> << >>]

\* Escrow::get_or_add_pool: the pools map after the call.
get_or_add_pool(ps, owner_nfgid) ==
    IF owner_nfgid \in DOMAIN ps THEN ps
    ELSE ps @@ (owner_nfgid :> new_pool(owner_nfgid))

\* Escrow::read_funds
read_funds(owner, resource) ==
    IF owner \in DOMAIN pools
    THEN IF resource \in DOMAIN pools[owner].vaults
         THEN vault_amount(resource, pools[owner].vaults[resource])
         ELSE 0
    ELSE 0

\* Every NFT local id lives in exactly one place: the ids held in some
\* pool vault; the others are held outside the Escrow.
ids_in_pools ==
    UNION {pools[o].vaults[NFT].ids :
             o \in {p \in DOMAIN pools : NFT \in DOMAIN pools[p].vaults}}

\* The receipt of a transaction.
\* The receipt of a transaction: the operation and its outcome ("ok" or
\* the panic), the pool and resource it addressed, the Allowance NFT handed
\* in with its data before the call, the quantity asked for and the bucket
\* returned (when it succeeded), and whether the Allowance NFT came back.
receipt(op, err, owner, resource, allowance, nfdata, quantity, bucket, returned) ==
    [op |-> op, err |-> err, owner |-> owner, resource |-> resource,
     allowance |-> allowance, nfdata |-> nfdata, quantity |-> quantity,
     bucket |-> bucket, returned |-> returned]

no_receipt ==
    receipt("none", "ok", "none", "none", "none", None, None, None, FALSE)

\* The MockDex components that have been instantiated.
Dexes == {"dex1", "dex2"}

\* MockDex::instantiate_mock_dex: empty books and payout stores.  A book
\* maps a price to the one Offering at that price.
instantiate_mock_dex ==
    [buy_book |-> << >>, sell_book |-> << >>,
     payouts_xrd |-> << >>, payouts_meme |-> << >>,
     garbage_heap |-> << >>]

Init ==
    /\ dexes = [d \in Dexes |-> instantiate_mock_dex]
    /\ pools = << >>
    /\ allowances = << >>
    /\ burned = {}
    /\ now = 0
    /\ used = << >>
    /\ last = no_receipt

(* --------------------------- use_allowance ----------------------------- *)

\* AllowanceLifeCycle
OneOff == [kind |-> "OneOff", min_delay |-> None]

Accumulating == [kind |-> "Accumulating", min_delay |-> None]

Repeating(min_delay) == [kind |-> "Repeating", min_delay |-> min_delay]

\* Outcome of use_allowance: err is "ok" or the panic; when "ok", burn tells
\* whether the NFT is burned and nfdata is its data after the call.
use_result(err, burn, nfdata) == [err |-> err, burn |-> burn, nfdata |-> nfdata]

\* Mutant of check_validity: valid_until is an exclusive bound.
check_validity_exclusive(nfdata, t) ==
    IF ~(nfdata.valid_from <= t) THEN "2009"
    ELSE IF ~(is_none(nfdata.valid_until) \/ unwrap(nfdata.valid_until) > t)
         THEN "2011"
         ELSE "ok"

\* use_allowance, the validity window (asserts 2009 and 2011).
check_validity(nfdata, t) ==
    IF ~(nfdata.valid_from <= t) THEN "2009"
    ELSE IF ~(is_none(nfdata.valid_until) \/ unwrap(nfdata.valid_until) >= t)
         THEN "2011"
         ELSE "ok"

\* Mutant of check_sufficiency: the ids the allowance names count against
\* its amount like any other id.
check_sufficiency_counts_named(max_amount, take_nflids, take_amount) ==
    IF is_none(max_amount) THEN "ok"
    ELSE LET max == unwrap(max_amount) IN
         IF max.tag = "NonFungible"
         THEN LET already_taken ==
                      0
                  to_take == unwrap_or_default(take_amount)
                             + length_of_option_set(take_nflids) - already_taken
              IN IF to_take <= unwrap_or_default(max.amount) THEN "ok" ELSE "2012"
         ELSE IF unwrap_or_default(take_amount) + length_of_option_set(take_nflids)
                     <= max.dec
              THEN "ok" ELSE "2010"

\* use_allowance, "Check that the allowance is big enough for this
\* withdrawal" (asserts 2012 and 2010).
check_sufficiency(max_amount, take_nflids, take_amount) ==
    IF is_none(max_amount) THEN "ok"
    ELSE LET max == unwrap(max_amount) IN
         IF max.tag = "NonFungible"
         THEN LET already_taken ==
                      IF is_some(take_nflids) /\ is_some(max.nflids)
                      THEN Cardinality(unwrap(take_nflids) \cap unwrap(max.nflids))
                      ELSE 0
                  to_take == unwrap_or_default(take_amount)
                             + length_of_option_set(take_nflids) - already_taken
              IN IF to_take <= unwrap_or_default(max.amount) THEN "ok" ELSE "2012"
         ELSE IF unwrap_or_default(take_amount) + length_of_option_set(take_nflids)
                     <= max.dec
              THEN "ok" ELSE "2010"

\* Mutant of accumulate: the named ids are added to a Fungible max_amount
\* instead of subtracted.
accumulate_sign_slip(nfdata, take_nflids, take_amount) ==
    IF is_none(nfdata.max_amount) THEN use_result("ok", TRUE, nfdata)
    ELSE LET max == unwrap(nfdata.max_amount) IN
         IF max.tag = "Fungible"
         THEN LET new_max_amount == max.dec - unwrap_or_default(take_amount)
                                    + length_of_option_set(take_nflids)
              IN IF new_max_amount = 0 THEN use_result("ok", TRUE, nfdata)
                 ELSE use_result("ok", FALSE,
                           [nfdata EXCEPT !.max_amount = Some(Fungible(new_max_amount))])
         ELSE \* max_nflids.unwrap() panics when the allowance names no ids
              IF is_some(take_nflids) /\ is_none(max.nflids)
              THEN use_result("unwrap on None: max_nflids", FALSE, nfdata)
              \* max_amount.unwrap() panics when the allowance has no amount
              ELSE IF is_some(take_amount) /\ is_none(max.amount)
              THEN use_result("unwrap on None: max_amount", FALSE, nfdata)
              \* u64::try_from(take_amount) fails on a negative Decimal
              ELSE IF is_some(take_amount) /\ unwrap(take_amount) < 0
              THEN use_result("amount to take must be whole number", FALSE, nfdata)
              \* u64 subtraction
              ELSE IF is_some(take_amount) /\ unwrap(take_amount) > unwrap(max.amount)
              THEN use_result("attempt to subtract with overflow", FALSE, nfdata)
              ELSE LET new_max_nflids ==
                           IF is_some(take_nflids)
                           THEN Some(unwrap(max.nflids) \ unwrap(take_nflids))
                           ELSE max.nflids
                       new_max_amount ==
                           IF is_some(take_amount)
                           THEN Some(unwrap(max.amount) - unwrap(take_amount))
                           ELSE max.amount
                   IN IF unwrap_or_default(new_max_amount) = 0
                         /\ length_of_option_set(new_max_nflids) = 0
                      THEN use_result("ok", TRUE, nfdata)
                      ELSE use_result("ok", FALSE,
                                [nfdata EXCEPT !.max_amount =
                                    Some(NonFungible(new_max_nflids, new_max_amount))])

\* use_allowance, the AllowanceLifeCycle::Accumulating arm.
accumulate(nfdata, take_nflids, take_amount) ==
    IF is_none(nfdata.max_amount) THEN use_result("ok", TRUE, nfdata)
    ELSE LET max == unwrap(nfdata.max_amount) IN
         IF max.tag = "Fungible"
         THEN LET new_max_amount == max.dec - unwrap_or_default(take_amount)
                                    - length_of_option_set(take_nflids)
              IN IF new_max_amount = 0 THEN use_result("ok", TRUE, nfdata)
                 ELSE use_result("ok", FALSE,
                           [nfdata EXCEPT !.max_amount = Some(Fungible(new_max_amount))])
         ELSE \* max_nflids.unwrap() panics when the allowance names no ids
              IF is_some(take_nflids) /\ is_none(max.nflids)
              THEN use_result("unwrap on None: max_nflids", FALSE, nfdata)
              \* max_amount.unwrap() panics when the allowance has no amount
              ELSE IF is_some(take_amount) /\ is_none(max.amount)
              THEN use_result("unwrap on None: max_amount", FALSE, nfdata)
              \* u64::try_from(take_amount) fails on a negative Decimal
              ELSE IF is_some(take_amount) /\ unwrap(take_amount) < 0
              THEN use_result("amount to take must be whole number", FALSE, nfdata)
              \* u64 subtraction
              ELSE IF is_some(take_amount) /\ unwrap(take_amount) > unwrap(max.amount)
              THEN use_result("attempt to subtract with overflow", FALSE, nfdata)
              ELSE LET new_max_nflids ==
                           IF is_some(take_nflids)
                           THEN Some(unwrap(max.nflids) \ unwrap(take_nflids))
                           ELSE max.nflids
                       new_max_amount ==
                           IF is_some(take_amount)
                           THEN Some(unwrap(max.amount) - unwrap(take_amount))
                           ELSE max.amount
                   IN IF unwrap_or_default(new_max_amount) = 0
                         /\ length_of_option_set(new_max_nflids) = 0
                      THEN use_result("ok", TRUE, nfdata)
                      ELSE use_result("ok", FALSE,
                                [nfdata EXCEPT !.max_amount =
                                    Some(NonFungible(new_max_nflids, new_max_amount))])

\* Mutant of repeat: the delay is counted from the old valid_from instead
\* of from the time of use.
repeat_from_valid_from(nfdata, t) ==
    IF is_some(nfdata.life_cycle.min_delay)
    THEN use_result("ok", FALSE,
              [nfdata EXCEPT !.valid_from =
                  nfdata.valid_from + unwrap(nfdata.life_cycle.min_delay)])
    ELSE use_result("ok", FALSE, nfdata)

\* use_allowance, the AllowanceLifeCycle::Repeating arm.
repeat(nfdata, t) ==
    IF is_some(nfdata.life_cycle.min_delay)
    THEN use_result("ok", FALSE,
              [nfdata EXCEPT !.valid_from = t + unwrap(nfdata.life_cycle.min_delay)])
    ELSE use_result("ok", FALSE, nfdata)

\* Mutant of update_life_cycle: a OneOff allowance is burned only when the
\* request uses it up.
update_life_cycle_oneoff_partial(nfdata, take_nflids, take_amount, t) ==
    CASE nfdata.life_cycle.kind \in {"OneOff", "Accumulating"} ->
             accumulate(nfdata, take_nflids, take_amount)
      [] nfdata.life_cycle.kind = "Repeating" -> repeat(nfdata, t)

\* Mutant of update_life_cycle: a Repeating allowance without min_delay is
\* accounted like an Accumulating one.
update_life_cycle_repeating_accumulates(nfdata, take_nflids, take_amount, t) ==
    CASE nfdata.life_cycle.kind = "OneOff" -> use_result("ok", TRUE, nfdata)
      [] nfdata.life_cycle.kind = "Accumulating" ->
             accumulate(nfdata, take_nflids, take_amount)
      [] nfdata.life_cycle.kind = "Repeating" ->
             IF is_some(nfdata.life_cycle.min_delay) THEN repeat(nfdata, t)
             ELSE accumulate(nfdata, take_nflids, take_amount)

\* use_allowance, "Update the allowance to reflect the withdrawal indicated".
update_life_cycle(nfdata, take_nflids, take_amount, t) ==
    CASE nfdata.life_cycle.kind = "OneOff" -> use_result("ok", TRUE, nfdata)
      [] nfdata.life_cycle.kind = "Accumulating" ->
             accumulate(nfdata, take_nflids, take_amount)
      [] nfdata.life_cycle.kind = "Repeating" -> repeat(nfdata, t)

\* Escrow::use_allowance(allowance, amount) at ledger time t.
use_allowance(nfdata, amount, t) ==
    LET take == extract_max_values(amount) IN
    IF nfdata.escrow_pool[1] # ThisEscrow
    THEN use_result("allowance is not for this escrow", FALSE, nfdata)
    ELSE IF check_validity(nfdata, t) # "ok"
    THEN use_result(check_validity(nfdata, t), FALSE, nfdata)
    ELSE IF check_sufficiency(nfdata.max_amount, take.nflids, take.amount) # "ok"
    THEN use_result(check_sufficiency(nfdata.max_amount, take.nflids, take.amount),
              FALSE, nfdata)
    ELSE update_life_cycle(nfdata, take.nflids, take.amount, t)

(* ------------------------------ vaults --------------------------------- *)

\* Outcome of the closure of withdraw / withdraw_with_allowance.
taken(err, v, bucket) == [err |-> err, vault |-> v, bucket |-> bucket]

\* Mutant of take_from_vault: the amount is taken from the whole vault, so
\* an id that was named can be counted again towards the amount.
take_from_vault_overlap(resource, v, take_nflids, take_amount) ==
    LET named == IF is_some(take_nflids) THEN unwrap(take_nflids) ELSE {}
        n == unwrap_or_default(take_amount)
    IN IF is_some(take_nflids) /\ is_fungible(resource)
       THEN {taken("not a non-fungible vault", v, None)}
       ELSE IF ~(named \subseteq v.ids)
       THEN {taken("non-fungible not found", v, None)}
       ELSE IF n < 0
       THEN {taken("negative amount", v, None)}
       ELSE IF n > (IF is_fungible(resource) THEN v.amount ELSE Cardinality(v.ids))
       THEN {taken("insufficient balance", v, None)}
       ELSE IF is_none(take_nflids) /\ is_none(take_amount)
       THEN {taken("unwrap on None: bucket", v, None)}
       ELSE IF is_fungible(resource)
       THEN {taken("ok", [v EXCEPT !.amount = v.amount - n],
                   Some(bucket_of(resource, n, {})))}
       ELSE {taken("ok", [v EXCEPT !.ids = (v.ids \ named) \ arbitrary],
                   Some(bucket_of(resource, 0, named \cup arbitrary))) :
                arbitrary \in {s \in SUBSET v.ids : Cardinality(s) = n}}

\* The closure of withdraw / withdraw_with_allowance run on vault v of
\* `resource`, and the unwrap() of its result: the set of possible outcomes
\* (which ids an amount takes from a non-fungible vault is the ledger's
\* choice).  A panic is the single outcome that leaves the vault as it was.
take_from_vault(resource, v, take_nflids, take_amount) ==
    LET named == IF is_some(take_nflids) THEN unwrap(take_nflids) ELSE {}
        rest == v.ids \ named
        n == unwrap_or_default(take_amount)
    IN \* v.as_non_fungible()
       IF is_some(take_nflids) /\ is_fungible(resource)
       THEN {taken("not a non-fungible vault", v, None)}
       \* take_non_fungibles(&nflids)
       ELSE IF ~(named \subseteq v.ids)
       THEN {taken("non-fungible not found", v, None)}
       \* v.take(amount)
       ELSE IF n < 0
       THEN {taken("negative amount", v, None)}
       ELSE IF n > (IF is_fungible(resource) THEN v.amount ELSE Cardinality(rest))
       THEN {taken("insufficient balance", v, None)}
       \* .unwrap() of the bucket
       ELSE IF is_none(take_nflids) /\ is_none(take_amount)
       THEN {taken("unwrap on None: bucket", v, None)}
       ELSE IF is_fungible(resource)
       THEN {taken("ok", [v EXCEPT !.amount = v.amount - n],
                   Some(bucket_of(resource, n, {})))}
       ELSE {taken("ok", [v EXCEPT !.ids = rest \ arbitrary],
                   Some(bucket_of(resource, 0, named \cup arbitrary))) :
                arbitrary \in {s \in SUBSET rest : Cardinality(s) = n}}

\* Mutant of operate_on_vault: the resource of the allowance is not
\* compared with the pool's allowance_badge_res.
operate_on_vault_unchecked(owner, resource, allowance_resaddr) ==
    IF owner \notin DOMAIN pools THEN "pool not found"
    ELSE IF resource \notin DOMAIN pools[owner].vaults THEN "resource not found"
    ELSE "ok"

\* Escrow::operate_on_vault up to the call of `operation`: the panic that
\* stops it, or "ok".
operate_on_vault(owner, resource, allowance_resaddr) ==
    IF owner \notin DOMAIN pools THEN "pool not found"
    ELSE IF is_some(allowance_resaddr)
            /\ pools[owner].allowance_badge_res # unwrap(allowance_resaddr)
    THEN "allowance is not for this pool"
    ELSE IF resource \notin DOMAIN pools[owner].vaults THEN "resource not found"
    ELSE "ok"

(* ----------------------------- operations ------------------------------ *)

remove_key(f, k) == [x \in DOMAIN f \ {k} |-> f[x]]

\* Mutant of fails: what use_allowance did to a OneOff allowance stays
\* when the vault operation after it panics.
fails_after_burn(op, err, owner, resource, allowance, nfdata) ==
    LET spent == /\ is_some(nfdata)
                 /\ unwrap(nfdata).life_cycle.kind = "OneOff"
                 /\ err \in {"pool not found", "resource not found",
                             "allowance is not for this pool",
                             "non-fungible not found", "insufficient balance"}
    IN /\ last' = receipt(op, err, "none", "none", allowance, nfdata,
                          None, None, FALSE)
       /\ allowances' = IF spent THEN remove_key(allowances, allowance)
                        ELSE allowances
       /\ burned' = IF spent THEN burned \cup {allowance} ELSE burned
       /\ UNCHANGED <<dexes, pools, now, used>>

\* A failed transaction: nothing changes on the ledger.  Its receipt names
\* the operation, the panic and the Allowance NFT handed in.
fails(op, err, owner, resource, allowance, nfdata) ==
    /\ last' = receipt(op, err, "none", "none", allowance, nfdata,
                       None, None, FALSE)
    /\ UNCHANGED <<dexes, pools, allowances, burned, now, used>>

\* Mutant of create_allowance: the allowance is valid from the start.
create_allowance_from_zero(escrow_pool, pool_mgr, valid_until, valid_from, life_cycle, for_resource, max_amount) ==
    [resource_address |-> pool_mgr,
     escrow_pool |-> escrow_pool, valid_until |-> valid_until,
     valid_from |-> 0, life_cycle |-> life_cycle,
     for_resource |-> for_resource, max_amount |-> max_amount]

\* Escrow::create_allowance: the data of the minted NFT, with the resource
\* address (pool_mgr) of the NFT itself.
create_allowance(escrow_pool, pool_mgr, valid_until, valid_from, life_cycle, for_resource, max_amount) ==
    [resource_address |-> pool_mgr,
     escrow_pool |-> escrow_pool, valid_until |-> valid_until,
     valid_from |-> valid_from, life_cycle |-> life_cycle,
     for_resource |-> for_resource, max_amount |-> max_amount]

\* Mutant of with_vault: the vault is written to every pool that has a
\* vault of the resource, whoever owns it.
with_vault_every_pool(ps, owner, resource, v) ==
    [p \in DOMAIN ps |->
        IF p = owner \/ resource \in DOMAIN ps[p].vaults
        THEN [ps[p] EXCEPT !.vaults =
                [r \in DOMAIN @ \cup {resource} |->
                    IF r = resource THEN v ELSE @[r]]]
        ELSE ps[p]]

\* The pools map with `v` as the vault of `resource` in the pool of `owner`.
with_vault(ps, owner, resource, v) ==
    [ps EXCEPT ![owner].vaults =
        [r \in DOMAIN @ \cup {resource} |-> IF r = resource THEN v ELSE @[r]]]

\* Escrow::deposit_funds(owner, funds, None).  The bucket is held outside
\* the Escrow before the call: its non-fungible ids are in no pool.
deposit_funds(owner, funds) ==
    LET resource == funds.resource
        ps == get_or_add_pool(pools, owner)
        v == IF resource \in DOMAIN ps[owner].vaults
             THEN ps[owner].vaults[resource] ELSE new_vault
    IN /\ IF is_fungible(resource)
          THEN funds.ids = {} /\ funds.amount >= 0
               /\ v.amount + funds.amount <= MaxAmount
          ELSE funds.amount = 0 /\ funds.ids \cap ids_in_pools = {}
       /\ pools' = with_vault(ps, owner, resource,
                              [amount |-> v.amount + funds.amount,
                               ids |-> v.ids \cup funds.ids])
       /\ last' = receipt("deposit_funds", "ok", owner, resource, "none",
                          None, None, None, FALSE)
       /\ UNCHANGED <<dexes, allowances, burned, now, used>>

\* The arguments of a mint_allowance call, for its receipt.
mint_arguments(valid_until, valid_from, life_cycle, for_resource, max_quantity) ==
    [valid_until |-> valid_until, valid_from |-> valid_from,
     life_cycle |-> life_cycle, for_resource |-> for_resource,
     max_quantity |-> max_quantity]

\* Escrow::mint_allowance; `id` is the fresh local id the ledger gives the NFT.
mint_allowance(id, owner, valid_until, valid_from, life_cycle, for_resource, max_quantity) ==
    LET amount == IF is_none(max_quantity) THEN None
                  ELSE IF unwrap(max_quantity).tag = "NonFungible"
                       THEN unwrap(max_quantity).amount
                       ELSE Some(unwrap(max_quantity).dec)
    IN /\ id \notin DOMAIN allowances \cup burned
       /\ IF unwrap_or_default(amount) < 0
          THEN fails("mint_allowance", "max_amount cannot be negative",
                     owner, for_resource, "none",
                     Some(mint_arguments(valid_until, valid_from, life_cycle,
                                         for_resource, max_quantity)))
          ELSE /\ pools' = get_or_add_pool(pools, owner)
               /\ allowances' = allowances @@
                    (id :> create_allowance(<<ThisEscrow, owner>>,
                               get_or_add_pool(pools, owner)[owner].allowance_badge_res,
                               valid_until, valid_from, life_cycle,
                               for_resource, max_quantity))
               /\ last' = receipt("mint_allowance", "ok", owner, for_resource,
                                  id,
                                  Some(mint_arguments(valid_until, valid_from,
                                           life_cycle, for_resource,
                                           max_quantity)),
                                  None, None, TRUE)
               /\ UNCHANGED <<dexes, burned, now, used>>

\* Escrow::withdraw(caller, resource, quantity)
withdraw(caller, resource, quantity) ==
    LET take == extract_max_values(quantity)
        err == operate_on_vault(caller, resource, None)
    IN IF err # "ok"
       THEN fails("withdraw", err, caller, resource, "none", None)
       ELSE \E out \in take_from_vault(resource, pools[caller].vaults[resource],
                                       take.nflids, take.amount) :
              IF out.err # "ok"
              THEN fails("withdraw", out.err, caller, resource, "none", None)
              ELSE /\ pools' = with_vault(pools, caller, resource, out.vault)
                   /\ last' = receipt("withdraw", "ok", caller, resource, "none",
                                      None, Some(quantity), out.bucket, FALSE)
                   /\ UNCHANGED <<dexes, allowances, burned, now, used>>

\* The Allowance NFTs after a successful use_allowance of `id`.
allowances_after(id, u) ==
    IF u.burn THEN remove_key(allowances, id)
    ELSE [allowances EXCEPT ![id] = u.nfdata]

\* History: Allowance NFT `id` has been consumed at the current time, for
\* the first time at this time or (times = 2) not for the first time.
used_after(id, u) ==
    IF u.burn THEN remove_key(used, id)
    ELSE [x \in DOMAIN used \cup {id} |->
            IF x # id THEN used[x]
            ELSE [at |-> now,
                  times |-> IF id \in DOMAIN used /\ used[id].at = now
                            THEN 2 ELSE 1]]

\* Escrow::withdraw_with_allowance(allowance, quantity); the caller holds
\* the Allowance NFT `id` in a bucket.
withdraw_with_allowance(id, quantity) ==
    LET nfdata == allowances[id]
        owner_nfgid == nfdata.escrow_pool[2]
        withdraw_resource == nfdata.for_resource
        u == use_allowance(nfdata, quantity, now)
        take == extract_max_values(quantity)
        err == operate_on_vault(owner_nfgid, withdraw_resource,
                                Some(nfdata.resource_address))
    IN /\ id \in DOMAIN allowances
       /\ IF u.err # "ok"
          THEN fails("withdraw_with_allowance", u.err, owner_nfgid,
                     withdraw_resource, id, Some(nfdata))
          ELSE IF err # "ok"
          THEN fails("withdraw_with_allowance", err, owner_nfgid,
                     withdraw_resource, id, Some(nfdata))
          ELSE \E out \in take_from_vault(withdraw_resource,
                               pools[owner_nfgid].vaults[withdraw_resource],
                               take.nflids, take.amount) :
                 IF out.err # "ok"
                 THEN fails("withdraw_with_allowance", out.err, owner_nfgid,
                            withdraw_resource, id, Some(nfdata))
                 ELSE /\ pools' = with_vault(pools, owner_nfgid,
                                             withdraw_resource, out.vault)
                      /\ allowances' = allowances_after(id, u)
                      /\ burned' = IF u.burn THEN burned \cup {id} ELSE burned
                      /\ used' = used_after(id, u)
                      /\ last' = receipt("withdraw_with_allowance", "ok",
                                         owner_nfgid, withdraw_resource, id,
                                         Some(nfdata), Some(quantity),
                                         out.bucket, ~u.burn)
                      /\ UNCHANGED <<dexes, now>>

\* Mutant of subsidize_with_allowance: the allowance is charged with the
\* fee that was spent instead of the amount named.
subsidize_with_allowance_charging_fee(id, amount) ==
    LET nfdata == allowances[id]
        owner_nfgid == nfdata.escrow_pool[2]
        withdraw_resource == nfdata.for_resource
        u == use_allowance(nfdata, Fungible(amount), now)
        charged(spent) == use_allowance(nfdata, Fungible(spent), now)
        err == operate_on_vault(owner_nfgid, XRD, Some(nfdata.resource_address))
    IN /\ id \in DOMAIN allowances
       /\ IF u.err # "ok"
          THEN fails("subsidize_with_allowance", u.err, owner_nfgid,
                     withdraw_resource, id, Some(nfdata))
          ELSE IF XRD # withdraw_resource
          THEN fails("subsidize_with_allowance", "only XRD can by used for subsidy",
                     owner_nfgid, withdraw_resource, id, Some(nfdata))
          ELSE IF err # "ok"
          THEN fails("subsidize_with_allowance", err, owner_nfgid,
                     withdraw_resource, id, Some(nfdata))
          ELSE IF amount < 0
          THEN fails("subsidize_with_allowance", "negative amount", owner_nfgid,
                     withdraw_resource, id, Some(nfdata))
          ELSE IF amount > pools[owner_nfgid].vaults[XRD].amount
          THEN fails("subsidize_with_allowance", "insufficient balance",
                     owner_nfgid, withdraw_resource, id, Some(nfdata))
          ELSE \E spent \in 0..amount :
                 /\ pools' = with_vault(pools, owner_nfgid, XRD,
                        [pools[owner_nfgid].vaults[XRD] EXCEPT !.amount = @ - spent])
                 /\ allowances' = allowances_after(id, charged(spent))
                 /\ burned' = IF u.burn THEN burned \cup {id} ELSE burned
                 /\ used' = used_after(id, u)
                 /\ last' = receipt("subsidize_with_allowance", "ok", owner_nfgid,
                                    XRD, id, Some(nfdata), Some(Fungible(amount)),
                                    None, ~u.burn)
                 /\ UNCHANGED <<dexes, now>>

\* Escrow::subsidize_with_allowance(allowance, amount).  lock_fee(amount)
\* needs the vault to hold `amount`; what the transaction does not spend
\* on fees goes back to the vault, so the vault loses some spent <= amount.
subsidize_with_allowance(id, amount) ==
    LET nfdata == allowances[id]
        owner_nfgid == nfdata.escrow_pool[2]
        withdraw_resource == nfdata.for_resource
        u == use_allowance(nfdata, Fungible(amount), now)
        err == operate_on_vault(owner_nfgid, XRD, Some(nfdata.resource_address))
    IN /\ id \in DOMAIN allowances
       /\ IF u.err # "ok"
          THEN fails("subsidize_with_allowance", u.err, owner_nfgid,
                     withdraw_resource, id, Some(nfdata))
          ELSE IF XRD # withdraw_resource
          THEN fails("subsidize_with_allowance", "only XRD can by used for subsidy",
                     owner_nfgid, withdraw_resource, id, Some(nfdata))
          ELSE IF err # "ok"
          THEN fails("subsidize_with_allowance", err, owner_nfgid,
                     withdraw_resource, id, Some(nfdata))
          ELSE IF amount < 0
          THEN fails("subsidize_with_allowance", "negative amount", owner_nfgid,
                     withdraw_resource, id, Some(nfdata))
          ELSE IF amount > pools[owner_nfgid].vaults[XRD].amount
          THEN fails("subsidize_with_allowance", "insufficient balance",
                     owner_nfgid, withdraw_resource, id, Some(nfdata))
          ELSE \E spent \in 0..amount :
                 /\ pools' = with_vault(pools, owner_nfgid, XRD,
                        [pools[owner_nfgid].vaults[XRD] EXCEPT !.amount = @ - spent])
                 /\ allowances' = allowances_after(id, u)
                 /\ burned' = IF u.burn THEN burned \cup {id} ELSE burned
                 /\ used' = used_after(id, u)
                 /\ last' = receipt("subsidize_with_allowance", "ok", owner_nfgid,
                                    XRD, id, Some(nfdata), Some(Fungible(amount)),
                                    None, ~u.burn)
                 /\ UNCHANGED <<dexes, now>>

\* The ledger clock advances.
Tick ==
    /\ now < MaxTime
    /\ now' = now + 1
    /\ last' = receipt("tick", "ok", "none", "none", "none", None, None, None,
                       FALSE)
    /\ UNCHANGED <<dexes, pools, allowances, burned, used>>

(* --------------------------- owner operations -------------------------- *)

\* Mutant of call_read_funds: the pool is looked up with get_or_add_pool.
call_read_funds_creating(owner, resource) ==
    /\ last' = receipt("read_funds", "ok", owner, resource, "none", None,
                       Some(Fungible(read_funds(owner, resource))), None, FALSE)
    /\ pools' = get_or_add_pool(pools, owner)
    /\ UNCHANGED <<dexes, allowances, burned, now, used>>

\* A call of Escrow::read_funds(owner, resource): a read-only method
\* (&self); its receipt carries the Decimal it returned.
call_read_funds(owner, resource) ==
    /\ last' = receipt("read_funds", "ok", owner, resource, "none", None,
                       Some(Fungible(read_funds(owner, resource))), None, FALSE)
    /\ UNCHANGED <<dexes, pools, allowances, burned, now, used>>

\* Escrow::withdraw_all_of(caller, resource): the closure takes all.
withdraw_all_of(caller, resource) ==
    LET err == operate_on_vault(caller, resource, None)
        v == pools[caller].vaults[resource]
    IN IF err # "ok"
       THEN fails("withdraw_all_of", err, caller, resource, "none", None)
       ELSE /\ pools' = with_vault(pools, caller, resource, new_vault)
            /\ last' = receipt("withdraw_all_of", "ok", caller, resource,
                               "none", None, None,
                               Some(bucket_of(resource, v.amount, v.ids)), FALSE)
            /\ UNCHANGED <<dexes, allowances, burned, now, used>>

\* Mutant of lock_fee: the fee is locked whatever the vault holds.
lock_fee_overdraw(op, caller, amount) ==
    LET err == operate_on_vault(caller, XRD, None)
    IN IF err # "ok"
       THEN fails(op, err, caller, XRD, "none", None)
       ELSE IF amount < 0
       THEN fails(op, "negative amount", caller, XRD, "none", None)
       ELSE /\ pools' = with_vault(pools, caller, XRD,
                   [pools[caller].vaults[XRD] EXCEPT !.amount = @ - amount])
            /\ last' = receipt(op, "ok", caller, XRD, "none", None,
                               Some(Fungible(amount)), None, FALSE)
            /\ UNCHANGED <<dexes, allowances, burned, now, used>>

\* The closure of subsidize and subsidize_contingent: lock_fee(amount) /
\* lock_contingent_fee(amount) on the XRD vault of the caller's pool.  The
\* vault must hold `amount`; what the transaction does not spend on fees
\* goes back to the vault, so the vault loses some spent <= amount.
lock_fee(op, caller, amount) ==
    LET err == operate_on_vault(caller, XRD, None)
    IN IF err # "ok"
       THEN fails(op, err, caller, XRD, "none", None)
       ELSE IF amount < 0
       THEN fails(op, "negative amount", caller, XRD, "none", None)
       ELSE IF amount > pools[caller].vaults[XRD].amount
       THEN fails(op, "insufficient balance", caller, XRD, "none", None)
       ELSE \E spent \in 0..amount :
              /\ pools' = with_vault(pools, caller, XRD,
                     [pools[caller].vaults[XRD] EXCEPT !.amount = @ - spent])
              /\ last' = receipt(op, "ok", caller, XRD, "none", None,
                                 Some(Fungible(amount)), None, FALSE)
              /\ UNCHANGED <<dexes, allowances, burned, now, used>>

\* Escrow::subsidize(caller, amount)
subsidize(caller, amount) == lock_fee("subsidize", caller, amount)

\* Escrow::subsidize_contingent(caller, amount)
subsidize_contingent(caller, amount) ==
    lock_fee("subsidize_contingent", caller, amount)

(* ---------------------------- trust registry --------------------------- *)

\* The badge resource whose holders ask for allowances on deposit, and the
\* NonFungibleGlobalIds (resource, local id) of its badges.
CLUB == "club"

Requestors == {<<CLUB, 1>>, <<CLUB, 2>>}

\* KeyValueStore::insert
insert(kvs, key, value) ==
    [k \in DOMAIN kvs \cup {key} |-> IF k = key THEN value ELSE kvs[k]]

\* Escrow::add_trusted_nfgid / remove_trusted_nfgid: insert the flag.
set_trusted_nfgid(op, owner, nfgid, flag) ==
    /\ pools' = [get_or_add_pool(pools, owner) EXCEPT
                    ![owner].trusted_nfgids = insert(@, nfgid, flag)]
    /\ last' = receipt(op, "ok", owner, nfgid, "none", None, None, None, FALSE)
    /\ UNCHANGED <<dexes, allowances, burned, now, used>>

add_trusted_nfgid(owner, add_nfgid) ==
    set_trusted_nfgid("add_trusted_nfgid", owner, add_nfgid, TRUE)

remove_trusted_nfgid(owner, remove_nfgid) ==
    set_trusted_nfgid("remove_trusted_nfgid", owner, remove_nfgid, FALSE)

\* Escrow::add_trusted_resource / remove_trusted_resource: insert the flag.
set_trusted_resource(op, owner, resource, flag) ==
    /\ pools' = [get_or_add_pool(pools, owner) EXCEPT
                    ![owner].trusted_res = insert(@, resource, flag)]
    /\ last' = receipt(op, "ok", owner, resource, "none", None, None, None,
                       FALSE)
    /\ UNCHANGED <<dexes, allowances, burned, now, used>>

add_trusted_resource(owner, add_resource) ==
    set_trusted_resource("add_trusted_resource", owner, add_resource, TRUE)

remove_trusted_resource(owner, remove_resource) ==
    set_trusted_resource("remove_trusted_resource", owner, remove_resource, FALSE)

\* Mutant of is_nfgid_trusted_by_pool: an entry of the registry is trust.
is_nfgid_trusted_by_pool_present(pool, candidate) ==
    candidate \in DOMAIN pool.trusted_nfgids

\* Escrow::is_nfgid_trusted_by_pool
is_nfgid_trusted_by_pool(pool, candidate) ==
    IF candidate \in DOMAIN pool.trusted_nfgids
    THEN pool.trusted_nfgids[candidate]
    ELSE FALSE

\* Escrow::is_resource_trusted_by_pool
is_resource_trusted_by_pool(pool, candidate) ==
    IF candidate \in DOMAIN pool.trusted_res
    THEN pool.trusted_res[candidate]
    ELSE FALSE

\* Escrow::is_nfgid_trusted, on the pools map `ps`
is_nfgid_trusted(ps, owner, candidate) ==
    IF owner \in DOMAIN ps
    THEN is_nfgid_trusted_by_pool(ps[owner], candidate)
    ELSE FALSE

\* Escrow::is_resource_trusted, on the pools map `ps`
is_resource_trusted(ps, owner, candidate) ==
    IF owner \in DOMAIN ps
    THEN is_resource_trusted_by_pool(ps[owner], candidate)
    ELSE FALSE

(* ----------------------- deposit with a requestor ---------------------- *)

\* A Proof handed in as allowance_requestor: of a badge (a
\* NonFungibleGlobalId) or of an amount of a fungible resource.
XrdProof == <<XRD, 0>>

Proofs == Requestors \cup {XrdProof}

\* The receipt of a deposit_funds call: the pool, the bucket handed in,
\* the requestor, and the Allowance NFT returned ("none": no allowance).
deposit_receipt(err, owner, funds, allowance_requestor, allowance) ==
    [op |-> "deposit_funds", err |-> err, owner |-> owner,
     resource |-> funds.resource, allowance |-> allowance, nfdata |-> None,
     quantity |-> None, bucket |-> Some(funds), returned |-> allowance # "none",
     requestor |-> allowance_requestor]

\* Mutant of requestor_check: a requestor is served whether trusted or not.
requestor_check_lenient(ps, owner, allowance_requestor) == "ok"

\* Mutant of requestor_check: a pool that trusts some badge trusts every
\* badge of the same resource.
requestor_check_same_resource(ps, owner, allowance_requestor) ==
    LET requestor == unwrap(allowance_requestor)
    IN IF is_none(allowance_requestor) THEN "ok"
       ELSE IF is_resource_trusted(ps, owner, requestor[1]) THEN "ok"
       ELSE IF is_fungible(requestor[1]) THEN "not a non-fungible proof"
       ELSE IF \E c \in DOMAIN ps[owner].trusted_nfgids :
                  c[1] = requestor[1] /\ ps[owner].trusted_nfgids[c]
       THEN "ok"
       ELSE "2013"

\* deposit_funds, "Create allowance if requested and allowed": the panic
\* a requestor meets, or "ok".  The resource is looked up first; the
\* identity is read with as_non_fungible(), which a fungible proof fails.
requestor_check(ps, owner, allowance_requestor) ==
    LET requestor == unwrap(allowance_requestor)
    IN IF is_none(allowance_requestor) THEN "ok"
       ELSE IF is_resource_trusted(ps, owner, requestor[1]) THEN "ok"
       ELSE IF is_fungible(requestor[1]) THEN "not a non-fungible proof"
       ELSE IF is_nfgid_trusted(ps, owner, requestor) THEN "ok"
       ELSE "2013"

\* Mutant of auto_max_amount: the ids of the bucket are also counted.
auto_max_amount_counted(funds) ==
    IF is_fungible(funds.resource)
    THEN Fungible(funds.amount)
    ELSE NonFungible(Some(funds.ids), Some(Cardinality(funds.ids)))

\* deposit_funds, the max_amount of the allowance it mints.
auto_max_amount(funds) ==
    IF is_fungible(funds.resource)
    THEN Fungible(funds.amount)
    ELSE NonFungible(Some(funds.ids), None)

\* Escrow::deposit_funds(owner, funds, allowance_requestor); `id` is the
\* fresh local id the ledger gives the Allowance NFT if one is minted.
deposit_funds_requesting(id, owner, funds, allowance_requestor) ==
    LET resource == funds.resource
        ps == get_or_add_pool(pools, owner)
        v == IF resource \in DOMAIN ps[owner].vaults
             THEN ps[owner].vaults[resource] ELSE new_vault
        check == requestor_check(ps, owner, allowance_requestor)
    IN /\ IF is_fungible(resource)
          THEN funds.ids = {} /\ funds.amount >= 0
               /\ v.amount + funds.amount <= MaxAmount
          ELSE funds.amount = 0 /\ funds.ids \cap ids_in_pools = {}
       /\ id \notin DOMAIN allowances \cup burned
       /\ IF is_none(allowance_requestor)
          THEN /\ pools' = with_vault(ps, owner, resource,
                               [amount |-> v.amount + funds.amount,
                                ids |-> v.ids \cup funds.ids])
               /\ last' = deposit_receipt("ok", owner, funds, None, "none")
               /\ UNCHANGED <<dexes, allowances, burned, now, used>>
          ELSE IF check # "ok"
          THEN /\ last' = deposit_receipt(check, owner, funds,
                                          allowance_requestor, "none")
               /\ UNCHANGED <<dexes, pools, allowances, burned, now, used>>
          ELSE /\ pools' = with_vault(ps, owner, resource,
                               [amount |-> v.amount + funds.amount,
                                ids |-> v.ids \cup funds.ids])
               /\ allowances' = allowances @@
                    (id :> create_allowance(<<ThisEscrow, owner>>,
                               ps[owner].allowance_badge_res, None, 0,
                               Accumulating, resource,
                               Some(auto_max_amount(funds))))
               /\ last' = deposit_receipt("ok", owner, funds,
                                          allowance_requestor, id)
               /\ UNCHANGED <<dexes, burned, now, used>>

(* -------------------------- foreign allowances ------------------------- *)

\* use_allowance reads the AllowanceNfData of whatever NFT is in the bucket
\* it is handed.  NFTs that this Escrow did not mint: of a resource the
\* caller made, with data of the caller's choice, or of the allowance
\* resource of another Escrow instance.
ForeignAllowances ==
    {create_allowance(<<ThisEscrow, o>>, <<"forged", o>>, None, 0, lc, XRD,
                      None) : o \in Owners, lc \in {OneOff, Repeating(None)}}
    \cup
    {create_allowance(<<"other escrow", o>>, <<"other allowance", o>>,
                      None, 0, Repeating(None), XRD, None) : o \in {"bob"}}

\* Such an NFT comes into existence outside the Escrow.
foreign_allowance(id, nfdata) ==
    /\ id \notin DOMAIN allowances \cup burned
    /\ allowances' = allowances @@ (id :> nfdata)
    /\ last' = receipt("foreign_allowance", "ok", "none", "none", id, None,
                       None, None, FALSE)
    /\ UNCHANGED <<dexes, pools, burned, now, used>>

(* ------------------------- reducing an allowance ----------------------- *)

\* Mutant of reduced_to_amount: new_max is not compared with the amount
\* the allowance has.
reduced_to_amount_unchecked(nfdata, new_max) ==
    IF new_max < 0 THEN use_result("2003", FALSE, nfdata)
    ELSE IF is_none(nfdata.max_amount)
    THEN use_result("ok", FALSE,
                    [nfdata EXCEPT !.max_amount = Some(Fungible(new_max))])
    ELSE LET max == unwrap(nfdata.max_amount) IN
         IF max.tag = "Fungible"
         THEN use_result("ok", FALSE,
                  [nfdata EXCEPT !.max_amount = Some(Fungible(new_max))])
         ELSE IF is_none(max.amount) THEN use_result("2002", FALSE, nfdata)
         ELSE use_result("ok", FALSE,
                  [nfdata EXCEPT !.max_amount =
                      Some(NonFungible(max.nflids, Some(new_max)))])

\* reduce_allowance_to_amount on the data of the Allowance NFT: the panic,
\* or "ok" and the data after the call.
reduced_to_amount(nfdata, new_max) ==
    IF new_max < 0 THEN use_result("2003", FALSE, nfdata)
    ELSE IF is_none(nfdata.max_amount)
    THEN use_result("ok", FALSE,
                    [nfdata EXCEPT !.max_amount = Some(Fungible(new_max))])
    ELSE LET max == unwrap(nfdata.max_amount) IN
         IF max.tag = "Fungible"
         THEN IF ~(max.dec >= new_max) THEN use_result("2000", FALSE, nfdata)
              ELSE use_result("ok", FALSE,
                       [nfdata EXCEPT !.max_amount = Some(Fungible(new_max))])
         ELSE IF is_none(max.amount) THEN use_result("2002", FALSE, nfdata)
         ELSE IF ~(new_max < unwrap(max.amount))
         THEN use_result("2001", FALSE, nfdata)
         ELSE use_result("ok", FALSE,
                  [nfdata EXCEPT !.max_amount =
                      Some(NonFungible(max.nflids, Some(new_max)))])

\* Mutant of reduced_by_nflids: the numeric amount is lost with the ids.
reduced_by_nflids_dropping_amount(nfdata, to_remove) ==
    IF is_none(nfdata.max_amount) THEN use_result("2007", FALSE, nfdata)
    ELSE LET max == unwrap(nfdata.max_amount) IN
         IF max.tag = "Fungible" THEN use_result("2005", FALSE, nfdata)
         ELSE IF is_none(max.nflids) THEN use_result("2006", FALSE, nfdata)
         ELSE use_result("ok", FALSE,
                  [nfdata EXCEPT !.max_amount =
                      Some(NonFungible(Some(unwrap(max.nflids) \ to_remove),
                                       None))])

\* reduce_allowance_by_nflids on the data of the Allowance NFT.
reduced_by_nflids(nfdata, to_remove) ==
    IF is_none(nfdata.max_amount) THEN use_result("2007", FALSE, nfdata)
    ELSE LET max == unwrap(nfdata.max_amount) IN
         IF max.tag = "Fungible" THEN use_result("2005", FALSE, nfdata)
         ELSE IF is_none(max.nflids) THEN use_result("2006", FALSE, nfdata)
         ELSE use_result("ok", FALSE,
                  [nfdata EXCEPT !.max_amount =
                      Some(NonFungible(Some(unwrap(max.nflids) \ to_remove),
                                       max.amount))])

\* The holder of Allowance NFT `id` reduces it: `r` is the outcome and
\* `quantity` what the call asked for.
reduce_allowance(op, id, r, quantity) ==
    /\ id \in DOMAIN allowances
    /\ IF r.err # "ok"
       THEN /\ last' = receipt(op, r.err, "none", "none", id,
                               Some(allowances[id]), Some(quantity), None,
                               FALSE)
            /\ UNCHANGED <<dexes, pools, allowances, burned, now, used>>
       ELSE /\ allowances' = [allowances EXCEPT ![id] = r.nfdata]
            /\ last' = receipt(op, "ok", "none", "none", id,
                               Some(allowances[id]), Some(quantity), None, TRUE)
            /\ UNCHANGED <<dexes, pools, burned, now, used>>

\* Escrow::reduce_allowance_to_amount(allowance, new_max)
reduce_allowance_to_amount(id, new_max) ==
    reduce_allowance("reduce_allowance_to_amount", id,
                     reduced_to_amount(allowances[id], new_max),
                     Fungible(new_max))

\* Escrow::reduce_allowance_by_nflids(allowance, to_remove)
reduce_allowance_by_nflids(id, to_remove) ==
    reduce_allowance("reduce_allowance_by_nflids", id,
                     reduced_by_nflids(allowances[id], to_remove),
                     NonFungible(Some(to_remove), None))

(* ------------------------------ MockDex -------------------------------- *)

min(a, b) == IF a <= b THEN a ELSE b

\* The keys of a BTreeMap as iter() visits them.
RECURSIVE ascending(_)
ascending(keys) ==
    IF keys = {} THEN << >>
    ELSE LET first == CHOOSE k \in keys : \A other \in keys : k <= other
         IN <<first>> \o ascending(keys \ {first})

\* The keys of a BTreeMap as iter().rev() visits them.
RECURSIVE descending(_)
descending(keys) ==
    IF keys = {} THEN << >>
    ELSE LET first == CHOOSE k \in keys : \A other \in keys : k >= other
         IN <<first>> \o descending(keys \ {first})

\* struct Actor
Actor(id_badge, escrow_payout_component) ==
    [id_badge |-> id_badge, escrow_payout_component |-> escrow_payout_component]

\* Offering with SourceOfFunds::Direct: the vault holds the funds offered.
Direct(actor, price_in_xrd, amount) ==
    [kind |-> "Direct", actor |-> actor, price_in_xrd |-> price_in_xrd,
     vault |-> [amount |-> amount, ids |-> {}]]

\* Offering with SourceOfFunds::FromEscrow: the vault holds one Allowance
\* NFT.
FromEscrow(actor, price_in_xrd, allowance) ==
    [kind |-> "FromEscrow", actor |-> actor, price_in_xrd |-> price_in_xrd,
     vault |-> [amount |-> 0, ids |-> {allowance}]]

\* AllowanceNfData::is_valid at ledger time t.
is_valid(nfdata, t) ==
    /\ nfdata.valid_from >= t
    /\ (is_none(nfdata.valid_until) \/ unwrap(nfdata.valid_until) < t)

\* MockDex::find_smallest
find_smallest(limit, available) ==
    IF is_some(limit) THEN min(unwrap(limit), available) ELSE available

\* MockDex::find_allowance_limit at ledger time t.
find_allowance_limit(nfdata, t) ==
    IF is_valid(nfdata, t)
    THEN IF is_none(nfdata.max_amount) THEN None
         ELSE Some(to_amount(unwrap(nfdata.max_amount)))
    ELSE Some(0)

\* The state of the Escrow component and of its Allowance NFTs, as one
\* transaction hands it from call to call.
escrow_state(ps, nfts, bs, us) ==
    [pools |-> ps, allowances |-> nfts, burned |-> bs, used |-> us]

\* MockDex::call_escrow_read_funds: Escrow::read_funds of pool `escrow`.
call_escrow_read_funds(e, escrow, resource) ==
    IF escrow[2] \in DOMAIN e.pools
    THEN IF resource \in DOMAIN e.pools[escrow[2]].vaults
         THEN vault_amount(resource, e.pools[escrow[2]].vaults[resource])
         ELSE 0
    ELSE 0

\* MockDex::call_escrow_deposit_funds: Escrow::deposit_funds(owner, funds,
\* None); the Escrow state after the call.
call_escrow_deposit_funds(e, escrow, funds) ==
    LET ps == get_or_add_pool(e.pools, escrow[2])
        v == IF funds.resource \in DOMAIN ps[escrow[2]].vaults
             THEN ps[escrow[2]].vaults[funds.resource] ELSE new_vault
    IN [e EXCEPT !.pools =
           with_vault(ps, escrow[2], funds.resource,
                      [amount |-> v.amount + funds.amount,
                       ids |-> v.ids \cup funds.ids])]

\* Outcome of call_escrow_withdraw_with_allowance: the panic or "ok", the
\* Escrow state after the call, the amount in the bucket returned and
\* whether the Allowance NFT came back.
withdrawn(err, e, amount, returned) ==
    [err |-> err, e |-> e, amount |-> amount, returned |-> returned]

\* MockDex::call_escrow_withdraw_with_allowance at ledger time t:
\* Escrow::withdraw_with_allowance(allowance, Fungible(amount)).
call_escrow_withdraw_with_allowance(e, id, amount, t) ==
    LET nfdata == e.allowances[id]
        owner_nfgid == nfdata.escrow_pool[2]
        withdraw_resource == nfdata.for_resource
        u == use_allowance(nfdata, Fungible(amount), t)
        err == IF owner_nfgid \notin DOMAIN e.pools THEN "pool not found"
               ELSE IF e.pools[owner_nfgid].allowance_badge_res
                           # nfdata.resource_address
               THEN "allowance is not for this pool"
               ELSE IF withdraw_resource
                           \notin DOMAIN e.pools[owner_nfgid].vaults
               THEN "resource not found"
               ELSE "ok"
    IN IF u.err # "ok" THEN withdrawn(u.err, e, 0, FALSE)
       ELSE IF err # "ok" THEN withdrawn(err, e, 0, FALSE)
       ELSE IF ~is_fungible(withdraw_resource)
       THEN withdrawn("not a fungible bucket", e, 0, FALSE)
       ELSE LET out == CHOOSE o \in
                         take_from_vault(withdraw_resource,
                             e.pools[owner_nfgid].vaults[withdraw_resource],
                             None, Some(amount)) : TRUE
            IN IF out.err # "ok" THEN withdrawn(out.err, e, 0, FALSE)
               ELSE withdrawn("ok",
                      escrow_state(
                          with_vault(e.pools, owner_nfgid, withdraw_resource,
                                     out.vault),
                          IF u.burn THEN remove_key(e.allowances, id)
                          ELSE [e.allowances EXCEPT ![id] = u.nfdata],
                          IF u.burn THEN e.burned \cup {id} ELSE e.burned,
                          IF u.burn THEN remove_key(e.used, id)
                          ELSE [x \in DOMAIN e.used \cup {id} |->
                                  IF x # id THEN e.used[x]
                                  ELSE [at |-> t,
                                        times |-> IF id \in DOMAIN e.used
                                                     /\ e.used[id].at = t
                                                  THEN 2 ELSE 1]]),
                      amount, ~u.burn)

\* Mutant of maker_payment: one for one, whatever the price.
maker_payment_at_par(side, funds_taken, price_in_xrd) == funds_taken

\* What the maker is owed for `funds_taken` from its Offering: XRD for the
\* MEME taken by a market buy (amount * price_in_xrd), MEME for the XRD
\* taken by a market sell (amount / price_in_xrd, a Decimal division, which
\* truncates).
maker_payment(side, funds_taken, price_in_xrd) ==
    IF side = "buy" THEN funds_taken * price_in_xrd
    ELSE funds_taken \div price_in_xrd

\* Mutant of is_empty: a vault with a single token left counts as empty.
is_empty_but_for_one(vault) == vault.amount <= 1 /\ vault.ids = {}

\* Vault::is_empty
is_empty(vault) == vault.amount = 0 /\ vault.ids = {}

\* What a market order found at one Offering: the price, the maker and
\* the Allowance NFT of the Offering, what the funds still in hand asked
\* for, the cap of the allowance and the funds its source held when the
\* order came to it, what was taken, what the maker is owed and whether
\* the Offering was marked for removal.
fill(o, funds_wanted, cap, held, funds_taken, owed, remove) ==
    [price |-> o.price_in_xrd, kind |-> o.kind, actor |-> o.actor,
     allowance |-> o.vault.ids, wanted |-> funds_wanted, cap |-> cap,
     held |-> held, taken |-> funds_taken, paid |-> owed, removed |-> remove]

\* The body of the for loop of market_buy_direct (side "buy", over the
\* sell book) and of market_sell_direct (side "sell", over the buy book)
\* for the Offering at `price`, at ledger time t.  `st` holds the Escrow
\* state, the book, the funds still in hand, what was purchased,
\* maker_payouts and offers_to_remove.
visit_offering(side, st, price, t) ==
    LET o == st.book[price]
        wanted_resource == IF side = "buy" THEN MEME ELSE XRD
        funds_wanted == IF side = "buy" THEN st.incoming \div o.price_in_xrd
                        ELSE st.incoming * o.price_in_xrd
    IN IF o.kind = "Direct"
       THEN LET max_avail == o.vault.amount
                funds_to_take == min(funds_wanted, max_avail)
                owed == maker_payment(side, funds_to_take, o.price_in_xrd)
                empty == is_empty([o.vault EXCEPT
                                      !.amount = max_avail - funds_to_take])
            IN IF funds_wanted = 0 THEN [st EXCEPT !.stopped = TRUE]
               ELSE [st EXCEPT
                       !.book[price].vault.amount = max_avail - funds_to_take,
                       !.incoming = @ - owed,
                       !.purchased = @ + funds_to_take,
                       !.maker_payouts =
                           Append(@, [actor |-> o.actor, amount |-> owed]),
                       !.offers_to_remove =
                           IF empty THEN Append(@, price) ELSE @,
                       !.fills = Append(@, fill(o, funds_wanted, None,
                                      max_avail, funds_to_take, owed, empty))]
       ELSE LET id == CHOOSE a \in o.vault.ids : TRUE
                nfdata == st.e.allowances[id]
                held == call_escrow_read_funds(st.e, nfdata.escrow_pool,
                                               wanted_resource)
                max_avail == find_smallest(find_allowance_limit(nfdata, t),
                                           held)
                funds_to_take == min(funds_wanted, max_avail)
                cap == IF is_none(nfdata.max_amount) THEN None
                       ELSE Some(to_amount(unwrap(nfdata.max_amount)))
                owed(w) == maker_payment(side, w.amount, o.price_in_xrd)
                after(w) ==
                    IF w.err # "ok" THEN [st EXCEPT !.err = w.err]
                    ELSE IF nfdata.for_resource # wanted_resource
                    THEN [st EXCEPT !.err = "resource mismatch"]
                    ELSE [st EXCEPT
                            !.e = w.e,
                            !.book[price].vault.ids =
                                IF w.returned THEN {id} ELSE {},
                            !.incoming = @ - owed(w),
                            !.purchased = @ + w.amount,
                            !.maker_payouts =
                                Append(@, [actor |-> o.actor,
                                           amount |-> owed(w)]),
                            !.offers_to_remove =
                                IF w.returned THEN @ ELSE Append(@, price),
                            !.fills = Append(@, fill(o, funds_wanted, cap,
                                           held, w.amount, owed(w),
                                           ~w.returned))]
            IN IF funds_wanted = 0 THEN [st EXCEPT !.stopped = TRUE]
               ELSE CHOOSE next \in
                        {after(w) : w \in
                            {call_escrow_withdraw_with_allowance(
                                 st.e, id, funds_to_take, t)}} : TRUE

\* The for loop over the book, `prices` being the keys still to visit in
\* the order of the iterator; a break or a panic ends it.
RECURSIVE walk_book(_, _, _, _)
walk_book(side, prices, st, t) ==
    IF prices = << >> \/ st.err # "ok" \/ st.stopped THEN st
    ELSE CHOOSE end \in {walk_book(side, Tail(prices), next, t) :
                            next \in {visit_offering(side, st, Head(prices),
                                                     t)}} : TRUE

\* MockDex::put_in_payout_vault: the payout store after the call.
put_in_payout_vault(vaults, recipient, funds) ==
    [r \in DOMAIN vaults \cup {recipient} |->
        IF r # recipient THEN vaults[r]
        ELSE (IF r \in DOMAIN vaults THEN vaults[r] ELSE 0) + funds.amount]

\* Mutant of pay_maker: the maker's escrow_payout_component is not looked
\* at, the proceeds stay in the payout stores.
pay_maker_in_house(paid, maker, payment) ==
    IF payment.resource = XRD
    THEN [paid EXCEPT !.payouts_xrd =
             put_in_payout_vault(@, maker.id_badge, payment)]
    ELSE [paid EXCEPT !.payouts_meme =
             put_in_payout_vault(@, maker.id_badge, payment)]

\* MockDex::pay_maker: `paid` holds the Escrow state and the two payout
\* stores.
pay_maker(paid, maker, payment) ==
    IF is_some(maker.escrow_payout_component)
    THEN [paid EXCEPT !.e =
             call_escrow_deposit_funds(@,
                 <<unwrap(maker.escrow_payout_component), maker.id_badge>>,
                 payment)]
    ELSE IF payment.resource = XRD
    THEN [paid EXCEPT !.payouts_xrd =
             put_in_payout_vault(@, maker.id_badge, payment)]
    ELSE [paid EXCEPT !.payouts_meme =
             put_in_payout_vault(@, maker.id_badge, payment)]

\* The loop over maker_payouts, whose buckets hold `resource`.
RECURSIVE pay_makers(_, _, _)
pay_makers(paid, maker_payouts, resource) ==
    IF maker_payouts = << >> THEN paid
    ELSE CHOOSE end \in
             {pay_makers(next, Tail(maker_payouts), resource) :
                 next \in {pay_maker(paid, Head(maker_payouts).actor,
                               bucket_of(resource,
                                         Head(maker_payouts).amount, {}))}} :
             TRUE

\* The receipt of a transaction on a MockDex: the method and its outcome,
\* the component, the trader's badge, the payout component and the price
\* named, the bucket handed in, what the order found at each Offering,
\* what was purchased, the purchase handed back (when it is) and what is
\* handed back of the bucket.
dex_receipt(op, err, d, trader, escrow_payout_component, price, handed_in, fills, purchased, purchase_back, remainder) ==
    [op |-> op, err |-> err, dex |-> d, trader |-> trader,
     payout |-> escrow_payout_component, price |-> price,
     handed_in |-> handed_in, fills |-> fills, purchased |-> purchased,
     purchase_back |-> purchase_back, remainder |-> remainder]

\* The Allowance NFTs that lie in the vaults of Offerings.
in_dex_vaults ==
    UNION {UNION {dexes[d].sell_book[p].vault.ids :
                     p \in DOMAIN dexes[d].sell_book} : d \in Dexes}
    \cup UNION {UNION {dexes[d].buy_book[p].vault.ids :
                     p \in DOMAIN dexes[d].buy_book} : d \in Dexes}

\* The limit_* methods as they would be were an Offering at a taken price
\* replaced, its Vault lost with it.
limit_order_replacing(op, d, side, trader, price_in_xrd, escrow_payout_component, handed_in, panic, offering) ==
    /\ last' = dex_receipt(op, panic, d, Some(trader),
                           escrow_payout_component, Some(price_in_xrd),
                           handed_in, << >>, 0, None, 0)
    /\ IF panic # "ok" THEN UNCHANGED dexes
       ELSE dexes' =
              IF side = "buy"
              THEN [dexes EXCEPT ![d].buy_book =
                       insert(@, price_in_xrd, offering)]
              ELSE [dexes EXCEPT ![d].sell_book =
                       insert(@, price_in_xrd, offering)]
    /\ UNCHANGED <<pools, allowances, burned, now, used>>

\* The four limit_* methods: `panic` is the assertion that failed, or
\* "ok"; the Offering is inserted at its price.  An Offering already at
\* that price would be dropped with its Vault, which the ledger refuses.
limit_order(op, d, side, trader, price_in_xrd, escrow_payout_component, handed_in, panic, offering) ==
    LET book == IF side = "buy" THEN dexes[d].buy_book ELSE dexes[d].sell_book
        err == IF panic # "ok" THEN panic
               ELSE IF price_in_xrd \in DOMAIN book THEN "vault dropped"
               ELSE "ok"
    IN /\ last' = dex_receipt(op, err, d, Some(trader),
                              escrow_payout_component, Some(price_in_xrd),
                              handed_in, << >>, 0, None, 0)
       /\ IF err # "ok" THEN UNCHANGED dexes
          ELSE dexes' =
                 IF side = "buy"
                 THEN [dexes EXCEPT ![d].buy_book =
                          insert(@, price_in_xrd, offering)]
                 ELSE [dexes EXCEPT ![d].sell_book =
                          insert(@, price_in_xrd, offering)]
       /\ UNCHANGED <<pools, allowances, burned, now, used>>

\* MockDex::limit_buy_direct
limit_buy_direct(d, trader, price_in_xrd, escrow_payout_component, payment) ==
    limit_order("limit_buy_direct", d, "buy", trader, price_in_xrd,
                escrow_payout_component, payment,
                IF payment.resource = XRD THEN "ok"
                ELSE "Only XRD payment allowed for buy",
                Direct(Actor(trader, escrow_payout_component), price_in_xrd,
                       payment.amount))

\* MockDex::limit_sell_direct
limit_sell_direct(d, trader, price_in_xrd, escrow_payout_component, for_sale) ==
    limit_order("limit_sell_direct", d, "sell", trader, price_in_xrd,
                escrow_payout_component, for_sale,
                IF for_sale.resource = MEME THEN "ok"
                ELSE "Only MEME can be sold",
                Direct(Actor(trader, escrow_payout_component), price_in_xrd,
                       for_sale.amount))

\* MockDex::limit_buy_with_escrow; the bucket holds the Allowance NFTs
\* `allowance`, which the trader held.
limit_buy_with_escrow(d, trader, price_in_xrd, escrow_payout_component, allowance) ==
    /\ allowance \subseteq DOMAIN allowances \ in_dex_vaults
    /\ limit_order("limit_buy_with_escrow", d, "buy", trader, price_in_xrd,
                   escrow_payout_component,
                   bucket_of("allowance", 0, allowance),
                   IF Cardinality(allowance) = 1 THEN "ok"
                   ELSE "Only one Allowance per trade",
                   [kind |-> "FromEscrow",
                    actor |-> Actor(trader, escrow_payout_component),
                    price_in_xrd |-> price_in_xrd,
                    vault |-> [amount |-> 0, ids |-> allowance]])

\* MockDex::limit_sell_with_escrow
limit_sell_with_escrow(d, trader, price_in_xrd, escrow_payout_component, allowance) ==
    /\ allowance \subseteq DOMAIN allowances \ in_dex_vaults
    /\ limit_order("limit_sell_with_escrow", d, "sell", trader, price_in_xrd,
                   escrow_payout_component,
                   bucket_of("allowance", 0, allowance),
                   IF Cardinality(allowance) = 1 THEN "ok"
                   ELSE "Only one Allowance per trade",
                   [kind |-> "FromEscrow",
                    actor |-> Actor(trader, escrow_payout_component),
                    price_in_xrd |-> price_in_xrd,
                    vault |-> [amount |-> 0, ids |-> allowance]])

\* Offering::extract_vault
extract_vault(offering) == offering.vault

\* The loop over offers_to_remove: the vaults pushed on garbage_heap, those
\* of the Offerings at the price points listed, in that order.
discarded(book, offers_to_remove) ==
    [i \in DOMAIN offers_to_remove |->
        extract_vault(book[offers_to_remove[i]])]

\* Mutant of remove_offers: every Offering stays on the book.
remove_offers_never(book, offers_to_remove) == book

\* The loop over offers_to_remove: the book without those price points.
remove_offers(book, offers_to_remove) ==
    [p \in DOMAIN book \ {offers_to_remove[i] : i \in DOMAIN offers_to_remove}
        |-> book[p]]

\* market_buy_direct (side "buy") and market_sell_direct (side "sell"):
\* the loop over the opposite book, the removal of the spent Offerings,
\* the payouts to the makers and the delivery of the purchase.
market_order(op, side, d, trader, escrow_payout_component, handed_in) ==
    LET dx == dexes[d]
        paying == IF side = "buy" THEN XRD ELSE MEME
        buying == IF side = "buy" THEN MEME ELSE XRD
        book == IF side = "buy" THEN dx.sell_book ELSE dx.buy_book
        prices == IF side = "buy" THEN ascending(DOMAIN book)
                  ELSE descending(DOMAIN book)
        start == [err |-> "ok", stopped |-> FALSE,
                  e |-> escrow_state(pools, allowances, burned, used),
                  book |-> book, incoming |-> handed_in.amount,
                  purchased |-> 0, maker_payouts |-> << >>,
                  offers_to_remove |-> << >>, fills |-> << >>]
    IN \E st \in {walk_book(side, prices, start, now)} :
       LET err == IF handed_in.resource # paying
                  THEN (IF side = "buy" THEN "Can only pay with XRD"
                        ELSE "Can only sell MEME")
                  ELSE IF st.err # "ok" THEN st.err
                  ELSE IF is_some(escrow_payout_component) /\ is_none(trader)
                  THEN "unwrap on None: trader"
                  ELSE "ok"
           left == remove_offers(st.book, st.offers_to_remove)
       IN IF err # "ok"
          THEN /\ last' = dex_receipt(op, err, d, trader,
                                      escrow_payout_component, None,
                                      handed_in, << >>, 0, None, 0)
               /\ UNCHANGED <<dexes, pools, allowances, burned, now, used>>
          ELSE \E paid \in {pay_makers([e |-> st.e,
                                        payouts_xrd |-> dx.payouts_xrd,
                                        payouts_meme |-> dx.payouts_meme],
                                       st.maker_payouts, paying)} :
               \E e \in {IF is_some(escrow_payout_component)
                         THEN call_escrow_deposit_funds(paid.e,
                                  <<unwrap(escrow_payout_component),
                                    unwrap(trader)>>,
                                  bucket_of(buying, st.purchased, {}))
                         ELSE paid.e} :
               /\ dexes' = [dexes EXCEPT ![d] =
                     [buy_book |-> IF side = "buy" THEN dx.buy_book ELSE left,
                      sell_book |-> IF side = "buy" THEN left
                                    ELSE dx.sell_book,
                      payouts_xrd |-> paid.payouts_xrd,
                      payouts_meme |-> paid.payouts_meme,
                      garbage_heap |-> dx.garbage_heap
                                         \o discarded(st.book,
                                                st.offers_to_remove)]]
               /\ pools' = e.pools
               /\ allowances' = e.allowances
               /\ burned' = e.burned
               /\ used' = e.used
               /\ last' = dex_receipt(op, "ok", d, trader,
                              escrow_payout_component, None, handed_in,
                              st.fills, st.purchased,
                              IF is_some(escrow_payout_component) THEN None
                              ELSE Some(st.purchased),
                              st.incoming)
               /\ UNCHANGED now

\* MockDex::market_buy_direct
market_buy_direct(d, trader, escrow_payout_component, payment) ==
    market_order("market_buy_direct", "buy", d, trader,
                 escrow_payout_component, payment)

\* MockDex::market_sell_direct
market_sell_direct(d, trader, escrow_payout_component, selling) ==
    market_order("market_sell_direct", "sell", d, trader,
                 escrow_payout_component, selling)

(* ------------------------------- inputs -------------------------------- *)

OptionOf(S) == {None} \cup {Some(x) : x \in S}

FungibleQuantities == {Fungible(d) : d \in (-1)..MaxAmount}

NonFungibleQuantities ==
    {NonFungible(s, n) : s \in OptionOf(SUBSET NfIds), n \in OptionOf(0..MaxAmount)}

TokenQuantities == FungibleQuantities \cup NonFungibleQuantities

\* Buckets a caller can hand in.
Buckets ==
    {bucket_of(XRD, d, {}) : d \in 0..MaxAmount}
        \cup {bucket_of(NFT, 0, s) : s \in SUBSET NfIds}

\* Unbounded quantities an allowance can be minted with (a negative one is
\* rejected by mint_allowance).
MaxQuantities == OptionOf(TokenQuantities)

(* --------------------------- specifications ---------------------------- *)

(* Spec: custody.  Two pools; alice's is funded with every bucket and     *)
(* bob's with one bucket of each resource; every quantity is withdrawn     *)
(* from both.  The allowances are unlimited and always valid, so that what *)
(* a withdrawal does to the vaults is explored for every quantity.         *)

\* The quantities asked of a vault of `resource`.  A fungible vault rejects
\* every named set of ids alike, so one named set stands for all.
QuantitiesFor(resource) ==
    IF is_fungible(resource)
    THEN FungibleQuantities
           \cup {NonFungible(None, n) : n \in OptionOf(0..MaxAmount)}
           \cup {NonFungible(Some({}), None)}
    ELSE TokenQuantities

Deposit == \E b \in Buckets : deposit_funds("alice", b)

DepositBob ==
    \E b \in {bucket_of(XRD, 1, {}), bucket_of(NFT, 0, {MaxId})} :
        deposit_funds("bob", b)

Withdraw ==
    \E r \in Resources : \E q \in QuantitiesFor(r) : withdraw("alice", r, q)

MintUnlimited ==
    \E r \in Resources :
        mint_allowance("a1", "alice", None, 0, Repeating(None), r, None)

WithdrawWithAllowance ==
    \E id \in DOMAIN allowances :
        \E q \in QuantitiesFor(allowances[id].for_resource) :
            withdraw_with_allowance(id, q)

Next == Deposit \/ DepositBob \/ Withdraw \/ MintUnlimited \/ WithdrawWithAllowance

Spec == Init /\ [][Next]_vars

(* SpecAmount: the amount accounting of use_allowance.  One pool, an       *)
(* allowance of every life cycle and every shape of max_amount, valid      *)
(* from the start and for ever, consumed with every quantity; the clock    *)
(* stands still.                                                           *)

DepositAlice ==
    \E b \in {bucket_of(XRD, MaxAmount, {}), bucket_of(NFT, 0, NfIds)} :
        deposit_funds("alice", b)

MintAmount ==
    \E lc \in {OneOff, Accumulating, Repeating(None), Repeating(Some(1))},
       r \in Resources,
       q \in MaxQuantities :
        mint_allowance("a1", "alice", None, 0, lc, r, q)

SubsidizeWithAllowance ==
    \E id \in DOMAIN allowances, d \in (-1)..MaxAmount :
        subsidize_with_allowance(id, d)

ConsumeWithAllowance ==
    \E id \in DOMAIN allowances, q \in TokenQuantities :
        withdraw_with_allowance(id, q)

NextAmount ==
    DepositAlice \/ MintAmount \/ ConsumeWithAllowance \/ SubsidizeWithAllowance

SpecAmount == Init /\ [][NextAmount]_vars

(* SpecTime: the validity window of use_allowance.  One pool of XRD, an    *)
(* allowance of every life cycle and every validity window, consumed as    *)
(* the clock advances.                                                     *)

DepositXrd == \E d \in 1..MaxAmount : deposit_funds("alice", bucket_of(XRD, d, {}))

MintTimed ==
    \E vu \in OptionOf({1}), vf \in {0, 1},
       lc \in {OneOff, Accumulating} \cup {Repeating(d) : d \in OptionOf({0, 1, 2})},
       q \in {None, Some(Fungible(MaxAmount))} :
        mint_allowance("a1", "alice", vu, vf, lc, XRD, q)

WithdrawXrdWithAllowance ==
    \E id \in DOMAIN allowances, d \in 0..MaxAmount :
        withdraw_with_allowance(id, Fungible(d))

NextTime ==
    DepositXrd \/ MintTimed \/ WithdrawXrdWithAllowance \/ SubsidizeWithAllowance
        \/ Tick

SpecTime == Init /\ [][NextTime]_vars

(* SpecOwner: what the owner of a pool does with a proof of their badge.  *)
(* Two owners deposit into and draw on their own pools.                    *)

DepositOwner ==
    \E o \in Owners :
        \E b \in {bucket_of(XRD, 1, {})}
                    \cup {bucket_of(NFT, 0, {i}) : i \in NfIds} :
            deposit_funds(o, b)

WithdrawOwner ==
    \E o \in Owners :
        \/ \E d \in (-1)..MaxAmount : withdraw(o, XRD, Fungible(d))
        \/ \E ids \in SUBSET NfIds, n \in OptionOf({1}) :
               withdraw(o, NFT, NonFungible(Some(ids), n))

WithdrawAllOf == \E o \in Owners, r \in Resources : withdraw_all_of(o, r)

Subsidize == \E o \in Owners, d \in (-1)..MaxAmount : subsidize(o, d)

SubsidizeContingent ==
    \E o \in Owners, d \in (-1)..MaxAmount : subsidize_contingent(o, d)

ReadFunds == \E o \in Owners, r \in Resources : call_read_funds(o, r)

NextOwner ==
    DepositOwner \/ WithdrawOwner \/ WithdrawAllOf \/ Subsidize
        \/ SubsidizeContingent \/ ReadFunds

SpecOwner == Init /\ [][NextOwner]_vars

(* SpecTrust: the trust registries of two pools.                           *)

AddTrustedNfgid == \E o \in Owners, c \in Requestors : add_trusted_nfgid(o, c)

RemoveTrustedNfgid ==
    \E o \in Owners, c \in Requestors : remove_trusted_nfgid(o, c)

AddTrustedResource == \E o \in Owners : add_trusted_resource(o, CLUB)

RemoveTrustedResource == \E o \in Owners : remove_trusted_resource(o, CLUB)

NextTrust ==
    AddTrustedNfgid \/ RemoveTrustedNfgid \/ AddTrustedResource
        \/ RemoveTrustedResource

SpecTrust == Init /\ [][NextTrust]_vars

(* SpecDeposit: deposits that ask for an allowance.  Alice trusts and    *)
(* distrusts one badge and trusts the badge resource; funds are deposited  *)
(* for her with and without a requestor, and the allowances handed out     *)
(* are consumed.                                                           *)

\* The local id of the next Allowance NFT.
fresh_id ==
    CHOOSE id \in AllowanceIds :
        \/ id \notin DOMAIN allowances \cup burned
        \/ AllowanceIds \subseteq DOMAIN allowances \cup burned

TrustOne == add_trusted_nfgid("alice", <<CLUB, 1>>)

DistrustOne == remove_trusted_nfgid("alice", <<CLUB, 1>>)

TrustClub == add_trusted_resource("alice", CLUB)

DepositRequesting ==
    \E b \in {bucket_of(XRD, d, {}) : d \in 1..MaxAmount}
                \cup {bucket_of(NFT, 0, ids) : ids \in {{1}, NfIds \ {1}}},
       p \in OptionOf(Proofs) :
        deposit_funds_requesting(fresh_id, "alice", b, p)

ConsumeDeposited ==
    \E id \in DOMAIN allowances :
        \/ \E d \in 0..MaxAmount : withdraw_with_allowance(id, Fungible(d))
        \/ \E ids \in SUBSET NfIds, n \in OptionOf({1}) :
               withdraw_with_allowance(id, NonFungible(Some(ids), n))

NextDeposit ==
    TrustOne \/ DistrustOne \/ TrustClub \/ DepositRequesting
        \/ ConsumeDeposited

SpecDeposit == Init /\ [][NextDeposit]_vars

(* SpecForge: allowances of two pools and NFTs the Escrow did not mint,  *)
(* all handed to withdraw_with_allowance and subsidize_with_allowance.     *)

DepositBoth ==
    \E o \in Owners :
        \E b \in {bucket_of(XRD, 1, {}), bucket_of(NFT, 0, {1})} :
            deposit_funds(o, b)

MintGenuine ==
    \E o \in Owners, r \in Resources :
        mint_allowance(fresh_id, o, None, 0, Repeating(None), r, None)

Forge == \E nfdata \in ForeignAllowances : foreign_allowance(fresh_id, nfdata)

WithdrawWithAny ==
    \E id \in DOMAIN allowances :
        \/ withdraw_with_allowance(id, Fungible(1))
        \/ withdraw_with_allowance(id, NonFungible(Some({1}), None))

SubsidizeWithAny ==
    \E id \in DOMAIN allowances : subsidize_with_allowance(id, 1)

NextForge ==
    DepositBoth \/ MintGenuine \/ Forge \/ WithdrawWithAny \/ SubsidizeWithAny

SpecForge == Init /\ [][NextForge]_vars

(* SpecMint: allowances minted by two owners with every kind of          *)
(* argument, and reduced by their holders.                                 *)

\* (valid_until, valid_from, life_cycle, for_resource, max_quantity)
MintArguments ==
    {<<None, 0, Accumulating, XRD, Some(Fungible(MaxAmount))>>,
     <<None, 0, Accumulating, XRD, Some(Fungible(-1))>>,
     <<None, 0, Accumulating, NFT,
       Some(NonFungible(Some(NfIds), Some(MaxAmount)))>>,
     <<None, 0, Accumulating, NFT, Some(NonFungible(Some({1}), None))>>,
     <<Some(1), 1, OneOff, XRD, None>>,
     <<Some(2), 0, Repeating(Some(1)), NFT,
       Some(NonFungible(None, Some(1)))>>,
     <<None, 0, Accumulating, NFT, Some(Fungible(1))>>}

DepositXrdAlice == deposit_funds("alice", bucket_of(XRD, 1, {}))

MintAny ==
    \E o \in Owners, a \in MintArguments :
        mint_allowance(fresh_id, o, a[1], a[2], a[3], a[4], a[5])

ReduceToAmount ==
    \E id \in DOMAIN allowances, new_max \in (-1)..(MaxAmount + 1) :
        reduce_allowance_to_amount(id, new_max)

ReduceByNflids ==
    \E id \in DOMAIN allowances, to_remove \in {{}, {1}, NfIds} :
        reduce_allowance_by_nflids(id, to_remove)

NextMint == DepositXrdAlice \/ MintAny \/ ReduceToAmount \/ ReduceByNflids

SpecMint == Init /\ [][NextMint]_vars

(* SpecDex: one MockDex at ledger time 0.  Alice funds her pool and    *)
(* offers from it through allowances, with her proceeds paid into the      *)
(* Escrow; Bob offers from vaults on the book, with his proceeds kept by   *)
(* the MockDex; market orders come without a trader and from Carol, who    *)
(* has her purchase paid into the Escrow.                                  *)

Prices == 1..MaxPrice

\* The largest amount a market order hands in.
MaxPayment == MaxAmount + 1

\* The sum of the values, all natural numbers, of a function.
sum_of(f) == Cardinality(UNION {{<<x, i>> : i \in 1..f[x]} : x \in DOMAIN f})

\* The amount of `resource` that pools `ps` and MockDex components `dxs`
\* hold.
held_in(ps, dxs, resource) ==
    sum_of([o \in DOMAIN ps |->
               IF resource \in DOMAIN ps[o].vaults
               THEN ps[o].vaults[resource].amount ELSE 0])
    + sum_of([d \in Dexes |->
               LET book == IF resource = MEME THEN dxs[d].sell_book
                           ELSE dxs[d].buy_book
               IN sum_of(IF resource = MEME THEN dxs[d].payouts_meme
                         ELSE dxs[d].payouts_xrd)
                  + sum_of([p \in DOMAIN book |-> book[p].vault.amount])])

\* The amount of `resource` held after the transaction.
supply(resource) == held_in(pools', dexes', resource)

\* The bounds of the model hold after the transaction: at most MaxPayment
\* XRD and MaxPayment MEME are held, and no garbage_heap has more than
\* MaxGarbage vaults.
within_bounds ==
    /\ supply(XRD) <= MaxPayment
    /\ supply(MEME) <= MaxPayment
    /\ \A d \in Dexes : Len(dexes'[d].garbage_heap) <= MaxGarbage

\* (trader, escrow_payout_component) of the market orders.
Takers == {<<None, None>>, <<Some("carol"), Some(ThisEscrow)>>}

\* Trading has opened: a market order has been sent.
trading == last.op \in {"market_buy_direct", "market_sell_direct"}

\* No Offering has been placed yet.
books_empty ==
    \A d \in Dexes : dexes[d].sell_book = << >> /\ dexes[d].buy_book = << >>

\* Alice funds her pool and mints her allowances (the first for MEME, the
\* second for XRD) before any Offering is placed, and the Offerings are
\* placed before trading opens.
FundPool ==
    \E r \in {MEME, XRD} :
        /\ books_empty /\ ~trading
        /\ deposit_funds("alice", bucket_of(r, 1, {}))
        /\ within_bounds

MintForDex ==
    /\ books_empty /\ ~trading
    /\ mint_allowance(fresh_id, "alice", None, 0, Accumulating,
                      IF allowances = << >> THEN MEME ELSE XRD,
                      Some(Fungible(MaxAmount)))

\* Bob's offerings are at the even prices, Alice's at the odd ones.
LimitSellDirect ==
    \E p \in {q \in Prices : q % 2 = 0}, n \in {1, MaxAmount} :
        /\ ~trading
        /\ limit_sell_direct("dex1", "bob", p, None, bucket_of(MEME, n, {}))
        /\ within_bounds

LimitBuyDirect ==
    \E p \in {q \in Prices : q % 2 = 0}, n \in {1, MaxAmount} :
        /\ ~trading
        /\ limit_buy_direct("dex1", "bob", p, None, bucket_of(XRD, n, {}))
        /\ within_bounds

LimitSellWithEscrow ==
    \E p \in {q \in Prices : q % 2 = 1}, id \in DOMAIN allowances :
        /\ ~trading
        /\ allowances[id].for_resource = MEME
        /\ limit_sell_with_escrow("dex1", "alice", p, Some(ThisEscrow), {id})

LimitBuyWithEscrow ==
    \E p \in {q \in Prices : q % 2 = 1}, id \in DOMAIN allowances :
        /\ ~trading
        /\ allowances[id].for_resource = XRD
        /\ limit_buy_with_escrow("dex1", "alice", p, Some(ThisEscrow), {id})

MarketBuy ==
    \E t \in Takers, n \in {1, MaxPayment} :
        /\ market_buy_direct("dex1", t[1], t[2], bucket_of(XRD, n, {}))
        /\ within_bounds

MarketSell ==
    \E t \in Takers, n \in {1, MaxPayment} :
        /\ market_sell_direct("dex1", t[1], t[2], bucket_of(MEME, n, {}))
        /\ within_bounds

NextDex ==
    FundPool \/ MintForDex \/ LimitSellDirect \/ LimitBuyDirect
        \/ LimitSellWithEscrow \/ LimitBuyWithEscrow \/ MarketBuy
        \/ MarketSell

SpecDex == Init /\ [][NextDex]_vars

(* SpecDexTime: the sell book of one MockDex while the ledger clock runs.  *)
(* Alice offers MEME from her pool through allowances with different       *)
(* validity periods and caps, Bob offers MEME from vaults on the book, and *)
(* market buys come at any time.                                           *)

\* (valid_until, valid_from, max_quantity) of the allowances Alice mints.
TimedAllowances ==
    {<<None, 0, Some(Fungible(MaxAmount))>>,
     <<None, 1, Some(Fungible(MaxAmount))>>,
     <<Some(1), 0, Some(Fungible(MaxAmount))>>,
     <<None, 0, None>>}

FundMeme ==
    /\ books_empty /\ ~trading
    /\ deposit_funds("alice", bucket_of(MEME, 1, {}))
    /\ within_bounds

MintTimedForDex ==
    \E a \in TimedAllowances :
        /\ books_empty /\ ~trading
        /\ mint_allowance(fresh_id, "alice", a[1], a[2], Accumulating, MEME,
                          a[3])

ListWithEscrow ==
    \E p \in {q \in Prices : q % 2 = 1}, id \in DOMAIN allowances :
        /\ ~trading
        /\ limit_sell_with_escrow("dex1", "alice", p, Some(ThisEscrow), {id})

ListDirect ==
    \E p \in {q \in Prices : q % 2 = 0}, n \in {1, MaxAmount} :
        /\ ~trading
        /\ limit_sell_direct("dex1", "bob", p, None, bucket_of(MEME, n, {}))
        /\ within_bounds

TimedBuy ==
    \E n \in {1, MaxPayment} :
        /\ market_buy_direct("dex1", None, None, bucket_of(XRD, n, {}))
        /\ within_bounds

NextDexTime ==
    FundMeme \/ MintTimedForDex \/ ListWithEscrow \/ ListDirect \/ TimedBuy
        \/ Tick

SpecDexTime == Init /\ [][NextDexTime]_vars

(* SpecShared: two MockDex components whose buy books hold Offerings that  *)
(* draw on Alice's one pool of XRD through her allowances, each good for   *)
(* any amount any number of times; market sells come to either MockDex,    *)
(* one transaction after the other.                                        *)

FundXrd ==
    /\ books_empty /\ ~trading
    /\ deposit_funds("alice", bucket_of(XRD, 1, {}))
    /\ within_bounds

MintShared ==
    /\ books_empty /\ ~trading
    /\ mint_allowance(fresh_id, "alice", None, 0, Repeating(None), XRD, None)

PlaceOnDex ==
    \E d \in Dexes, p \in Prices, id \in DOMAIN allowances :
        /\ ~trading
        /\ limit_buy_with_escrow(d, "alice", p, Some(ThisEscrow), {id})

SellOnDex ==
    \E d \in Dexes, n \in {1, MaxPayment} :
        /\ market_sell_direct(d, None, None, bucket_of(MEME, n, {}))
        /\ within_bounds

NextShared == FundXrd \/ MintShared \/ PlaceOnDex \/ SellOnDex

SpecShared == Init /\ [][NextShared]_vars

(* SpecLife: the whole life of one Accumulating allowance.  Alice's pool   *)
(* is funded once, with MaxAmount XRD and all the non-fungibles; one       *)
(* allowance is minted, with a max_amount whose total is LifeCap; nothing  *)
(* leaves the pool but through that allowance.                             *)

\* The total of the max_amount the allowance is minted with.
LifeCap == 1

\* The total a TokenQuantity stands for: its amount and its named ids.
total_of(quantity) ==
    IF quantity.tag = "Fungible" THEN quantity.dec
    ELSE length_of_option_set(quantity.nflids)
         + unwrap_or_default(quantity.amount)

FundOnce ==
    \E b \in {bucket_of(XRD, MaxAmount, {}), bucket_of(NFT, 0, NfIds)} :
        /\ "alice" \in DOMAIN pools => b.resource \notin DOMAIN pools["alice"].vaults
        /\ deposit_funds("alice", b)

MintOnce ==
    \E r \in Resources, q \in {x \in TokenQuantities : total_of(x) = LifeCap} :
        /\ allowances = << >> /\ burned = {}
        /\ mint_allowance("a1", "alice", None, 0, Accumulating, r, Some(q))

ConsumeForLife ==
    \E id \in DOMAIN allowances, q \in TokenQuantities :
        withdraw_with_allowance(id, q)

NextLife == FundOnce \/ MintOnce \/ ConsumeForLife

SpecLife == Init /\ [][NextLife]_vars

(* SpecSubsidy: fees locked through allowances.  Alice's pool holds XRD;   *)
(* Accumulating allowances for XRD and for the non-fungible resource, with *)
(* every validity window, are asked for every amount while the clock runs. *)

FundFees == deposit_funds("alice", bucket_of(XRD, MaxAmount, {}))

MintForFees ==
    \E vu \in OptionOf({1}), vf \in {0, 1}, r \in Resources :
        mint_allowance(fresh_id, "alice", vu, vf, Accumulating, r,
                       Some(Fungible(MaxAmount)))

SubsidizeForFees ==
    \E id \in DOMAIN allowances, d \in (-1)..(MaxAmount + 1) :
        subsidize_with_allowance(id, d)

NextSubsidy == FundFees \/ MintForFees \/ SubsidizeForFees \/ Tick

SpecSubsidy == Init /\ [][NextSubsidy]_vars

(* ======================================================================= *)
(*                               Properties                                *)
(* ======================================================================= *)

\* The last transaction was a consumption of an Allowance NFT (it ran
\* use_allowance), successful or not.
consumption ==
    last.op \in {"withdraw_with_allowance", "subsidize_with_allowance"}

consumed == consumption /\ last.err = "ok"

\* The data of the Allowance NFT before the last consumption.
pre == unwrap(last.nfdata)

\* The quantity the last successful transaction asked for.
asked == unwrap(last.quantity)

named_ids(q) == IF is_some(q.nflids) THEN unwrap(q.nflids) ELSE {}

(* ------------------------------ C1 ------------------------------------- *)

\* C1 (conservation): every successful withdraw or withdraw_with_allowance
\* of a quantity Q lowers the stored amount of that resource in that pool
\* by exactly Q's total, returns a bucket of that resource holding exactly
\* Q's total (for a non-fungible resource: exactly the ids that left the
\* vault), and changes no other pool and no other vault.
Conservation ==
    [][(last'.op \in {"withdraw", "withdraw_with_allowance"} /\ last'.err = "ok")
        => LET o == last'.owner
               r == last'.resource
               q == unwrap(last'.quantity)
               b == unwrap(last'.bucket)
           IN /\ o \in DOMAIN pools /\ r \in DOMAIN pools[o].vaults
              /\ vault_amount(r, pools'[o].vaults[r])
                    = vault_amount(r, pools[o].vaults[r]) - to_amount(q)
              /\ b.resource = r
              /\ bucket_amount(b) = to_amount(q)
              /\ ~is_fungible(r) =>
                    b.ids = pools[o].vaults[r].ids \ pools'[o].vaults[r].ids
              /\ DOMAIN pools' = DOMAIN pools
              /\ \A p \in DOMAIN pools :
                    /\ DOMAIN pools'[p].vaults = DOMAIN pools[p].vaults
                    /\ \A x \in DOMAIN pools[p].vaults :
                          (p # o \/ x # r) =>
                              pools'[p].vaults[x] = pools[p].vaults[x]]_vars

\* C1 witness: two ids were withdrawn with an allowance from alice's pool
\* while bob's pool holds funds of both resources.
ConservationWitness ==
    /\ last.op = "withdraw_with_allowance" /\ last.err = "ok"
    /\ last.owner = "alice" /\ last.resource = NFT
    /\ to_amount(asked) = 2
    /\ read_funds("bob", XRD) > 0
    /\ read_funds("alice", XRD) > 0

(* ------------------------------ C2 ------------------------------------- *)

\* C2: after a successful consumption of Q through an Accumulating
\* allowance whose max_amount R is bounded, the allowance is burned or the
\* total of its new max_amount is R's total minus Q's total.
AccumulatingDecrement ==
    (consumed /\ pre.life_cycle.kind = "Accumulating" /\ is_some(pre.max_amount))
        => \/ last.allowance \in burned
           \/ to_amount(unwrap(allowances[last.allowance].max_amount))
                 = to_amount(unwrap(pre.max_amount)) - to_amount(asked)

(* ------------------------------ C3 ------------------------------------- *)

\* C3 (monotonicity): a successful consumption never raises the total of
\* the max_amount of an Accumulating allowance, and leaves it bounded.
AccumulatingNeverIncreases ==
    (/\ consumed
     /\ pre.life_cycle.kind = "Accumulating"
     /\ is_some(pre.max_amount)
     /\ last.allowance \in DOMAIN allowances)
        => /\ is_some(allowances[last.allowance].max_amount)
           /\ to_amount(unwrap(allowances[last.allowance].max_amount))
                 <= to_amount(unwrap(pre.max_amount))

\* C3 witness: a fee subsidy was drawn on an Accumulating allowance, which
\* came back with a smaller max_amount.
AccumulatingNeverIncreasesWitness ==
    /\ last.op = "subsidize_with_allowance" /\ last.err = "ok"
    /\ pre.life_cycle.kind = "Accumulating"
    /\ pre.max_amount = Some(Fungible(MaxAmount))
    /\ last.allowance \in DOMAIN allowances
    /\ allowances[last.allowance].max_amount = Some(Fungible(MaxAmount - 1))

(* ------------------------------ C4 ------------------------------------- *)

\* C4: a consumption burns an Accumulating allowance (here: one with a
\* bounded max_amount R) if and only if it brings the max_amount to exactly
\* zero, that is when R's total minus Q's total is zero; otherwise the
\* allowance is returned to the caller.
AccumulatingBurnedIffZero ==
    (consumed /\ pre.life_cycle.kind = "Accumulating" /\ is_some(pre.max_amount))
        => /\ (last.allowance \in burned)
                 <=> (to_amount(unwrap(pre.max_amount)) - to_amount(asked) = 0)
           /\ (last.allowance \notin burned) <=> last.returned

(* ------------------------------ C5 ------------------------------------- *)

\* C5: the first successful consumption of a OneOff allowance burns it,
\* whatever was asked for; a burned Allowance NFT never exists again, so it
\* cannot be handed in for a second withdrawal.
OneOffBurned ==
    /\ [](/\ (consumed /\ pre.life_cycle.kind = "OneOff")
                => (last.allowance \in burned /\ ~last.returned)
          /\ burned \cap DOMAIN allowances = {})
    /\ [][burned \subseteq burned']_vars

\* C5 witness: a OneOff allowance for MaxAmount was burned by a withdrawal
\* of less than MaxAmount.
OneOffBurnedWitness ==
    /\ last.op = "withdraw_with_allowance" /\ last.err = "ok"
    /\ pre.life_cycle.kind = "OneOff"
    /\ pre.max_amount = Some(Fungible(MaxAmount))
    /\ asked = Fungible(1)
    /\ last.allowance \in burned

(* ------------------------------ C6 ------------------------------------- *)

\* C6: a successful consumption never burns a Repeating allowance and
\* never changes its max_amount; with min_delay = None it changes nothing
\* of the allowance, so that use_allowance accepts the same request again
\* at the same ledger time.
RepeatingUnchanged ==
    (consumed /\ pre.life_cycle.kind = "Repeating")
        => /\ last.allowance \in DOMAIN allowances
           /\ last.allowance \notin burned
           /\ last.returned
           /\ allowances[last.allowance].max_amount = pre.max_amount
           /\ is_none(pre.life_cycle.min_delay)
                => /\ allowances[last.allowance] = pre
                   /\ use_allowance(allowances[last.allowance], asked, now).err
                         = "ok"

\* C6 witness: a Repeating allowance without min_delay, for one token per
\* use, has been used for its full max_amount twice at the same ledger time.
RepeatingUnchangedWitness ==
    /\ last.op = "withdraw_with_allowance" /\ last.err = "ok"
    /\ pre.life_cycle = Repeating(None)
    /\ pre.max_amount = Some(Fungible(1))
    /\ asked = Fungible(1)
    /\ used[last.allowance].times = 2
    /\ used[last.allowance].at = now

(* ------------------------------ C9 ------------------------------------- *)

\* C9 (sufficiency): for an allowance inside its validity window and a
\* request (named ids N, count k), use_allowance rejects the request with
\* 2012 exactly when max_amount is NonFungible(S, c) and k + |N \ S| > c
\* (c = 0 when absent), rejects it with 2010 exactly when max_amount is
\* Fungible(m) and k + |N| > m, and never rejects it with either when
\* max_amount is None.
SufficiencyCheck ==
    \A id \in DOMAIN allowances : \A q \in TokenQuantities :
        LET a == allowances[id]
            err == use_allowance(a, q, now).err
            N == named_ids(extract_max_values(q))
            k == unwrap_or_default(extract_max_values(q).amount)
        IN check_validity(a, now) = "ok" =>
             IF is_none(a.max_amount)
             THEN err \notin {"2012", "2010"}
             ELSE LET max == unwrap(a.max_amount) IN
                  IF max.tag = "NonFungible"
                  THEN /\ err # "2010"
                       /\ (err = "2012") <=>
                             ~(k + Cardinality(N \ named_ids(max))
                                    <= unwrap_or_default(max.amount))
                  ELSE /\ err # "2012"
                       /\ (err = "2010") <=> ~(k + Cardinality(N) <= max.dec)

\* C9 witness: a withdrawal was rejected with 2012 by an allowance that
\* names ids and has a positive cap.
SufficiencyCheckWitness ==
    /\ last.op = "withdraw_with_allowance" /\ last.err = "2012"
    /\ pre.max_amount = Some(NonFungible(Some({1}), Some(1)))

(* ------------------------------ C7 ------------------------------------- *)

\* C7: once a Repeating allowance with min_delay = d has been consumed at
\* time T, its valid_from is T + d; while now < T + d use_allowance rejects
\* every request with 2009, a consumption attempted then has failed with
\* 2009 and has changed neither the allowance nor the pools; once
\* now >= T + d every request within valid_until and within max_amount
\* passes use_allowance.
RepeatingDelay ==
    /\ [](\A id \in DOMAIN allowances \cap DOMAIN used :
            LET a == allowances[id]
                d == unwrap(a.life_cycle.min_delay)
                T == used[id].at
            IN (a.life_cycle.kind = "Repeating" /\ is_some(a.life_cycle.min_delay))
                 => /\ a.valid_from = T + d
                    /\ \A q \in FungibleQuantities :
                         LET take == extract_max_values(q)
                             err == use_allowance(a, q, now).err
                         IN /\ now < T + d => err = "2009"
                            /\ (/\ now >= T + d
                                /\ (is_none(a.valid_until)
                                      \/ now <= unwrap(a.valid_until))
                                /\ check_sufficiency(a.max_amount, take.nflids,
                                                     take.amount) = "ok")
                                  => err = "ok"
                    /\ (consumption /\ last.allowance = id /\ now < T + d)
                         => \/ last.err = "2009"
                            \/ last.err = "ok" /\ T = now /\ used[id].times = 1)
    /\ [][last'.err = "2009" => UNCHANGED <<pools, allowances, burned>>]_vars

\* C7 witness: a Repeating allowance with a min_delay was consumed, and a
\* later attempt, made before the delay had passed, was rejected with 2009.
RepeatingDelayWitness ==
    /\ consumption /\ last.err = "2009"
    /\ last.allowance \in DOMAIN used
    /\ pre.life_cycle = Repeating(Some(2))
    /\ now = used[last.allowance].at + 1

(* ------------------------------ C8 ------------------------------------- *)

\* C8 (validity window): a consumption at time now of an allowance
\* succeeds only if valid_from <= now and valid_until is None or
\* now <= valid_until; it fails with 2009 when now < valid_from and with
\* 2011 when valid_from <= now and valid_until < now; a consumption that
\* fails so changes neither the allowances nor the pools.
ValidityWindow ==
    /\ [](consumption =>
            LET early == ~(pre.valid_from <= now)
                late == is_some(pre.valid_until) /\ ~(now <= unwrap(pre.valid_until))
            IN /\ last.err = "ok" => (~early /\ ~late)
               /\ early <=> last.err = "2009"
               /\ (~early /\ late) <=> last.err = "2011")
    /\ [][last'.err \in {"2009", "2011"}
            => UNCHANGED <<pools, allowances, burned, now>>]_vars

\* C8 witness: an allowance valid from 1 until 1 was consumed at time 1,
\* on both bounds of its window.
ValidityWindowWitness ==
    /\ consumed
    /\ pre.valid_from = 1 /\ pre.valid_until = Some(1)
    /\ now = 1

(* ------------------------------ C10 ------------------------------------ *)

\* C10 (named-id precedence): a successful withdrawal of NonFungible(N, k)
\* from a non-fungible vault removes exactly the ids of N (so all of them
\* were in the vault) and k other ids that are not in N, |N| + k ids in
\* all, and hands out exactly those; a withdrawal that names an id the
\* vault does not hold fails and removes nothing.
NamedIdPrecedence ==
    /\ [][(/\ last'.op \in {"withdraw", "withdraw_with_allowance"}
           /\ last'.err = "ok"
           /\ ~is_fungible(last'.resource)
           /\ unwrap(last'.quantity).tag = "NonFungible")
          => LET o == last'.owner
                 r == last'.resource
                 N == named_ids(unwrap(last'.quantity))
                 k == unwrap_or_default(unwrap(last'.quantity).amount)
                 before == pools[o].vaults[r].ids
                 after == pools'[o].vaults[r].ids
                 removed == before \ after
             IN /\ after \subseteq before
                /\ N \subseteq removed
                /\ Cardinality(removed \ N) = k
                /\ Cardinality(removed) = Cardinality(N) + k
                /\ unwrap(last'.bucket).ids = removed]_vars
    /\ [][last'.err = "non-fungible not found" => pools' = pools]_vars

\* C10 witness: a named id and one other id were withdrawn together.
NamedIdPrecedenceWitness ==
    /\ last.op = "withdraw" /\ last.err = "ok" /\ last.resource = NFT
    /\ asked.tag = "NonFungible"
    /\ Cardinality(named_ids(asked)) = 1
    /\ asked.amount = Some(1)

(* ------------------------------ C11 ------------------------------------ *)

\* C11 (idempotent read): read_funds(owner, resource) is the amount the
\* vault of that resource in that pool holds, and zero when the pool or
\* the vault does not exist; a call of it never fails, returns that
\* amount and changes nothing: it creates neither the pool nor the vault.
ReadFundsPure ==
    /\ [](\A o \in Owners, r \in Resources :
            read_funds(o, r) =
                IF o \in DOMAIN pools /\ r \in DOMAIN pools[o].vaults
                THEN IF is_fungible(r) THEN pools[o].vaults[r].amount
                     ELSE Cardinality(pools[o].vaults[r].ids)
                ELSE 0)
    /\ [][last'.op = "read_funds"
            => /\ last'.err = "ok"
               /\ last'.quantity = Some(Fungible(read_funds(last'.owner,
                                                            last'.resource)))
               /\ UNCHANGED <<pools, allowances, burned, now, used>>]_vars

\* C11 witness: read_funds returned zero for a pool that does not exist
\* while the other pool holds funds, and the pool still does not exist.
ReadFundsPureWitness ==
    /\ last.op = "read_funds" /\ last.err = "ok"
    /\ last.owner \notin DOMAIN pools
    /\ last.quantity = Some(Fungible(0))
    /\ \E o \in DOMAIN pools : read_funds(o, NFT) > 0

(* ------------------------------ C17 ------------------------------------ *)

\* C17 (owner operations stay in the owner's pool): withdraw,
\* withdraw_all_of, subsidize and subsidize_contingent succeed only when
\* the pool of the caller and its vault of the resource exist and hold
\* what is asked for; they change no pool other than the caller's and no
\* vault of it other than the resource's, create no pool and no vault,
\* and change nothing when they fail.
OwnerOperationsStayInPool ==
    [][last'.op \in {"withdraw", "withdraw_all_of", "subsidize",
                     "subsidize_contingent"}
        => /\ DOMAIN pools' = DOMAIN pools
           /\ \A p \in DOMAIN pools :
                 /\ DOMAIN pools'[p].vaults = DOMAIN pools[p].vaults
                 /\ p # last'.owner => pools'[p] = pools[p]
                 /\ \A r \in DOMAIN pools[p].vaults :
                       r # last'.resource
                           => pools'[p].vaults[r] = pools[p].vaults[r]
           /\ last'.err # "ok" => pools' = pools
           /\ last'.err = "ok"
                => /\ last'.owner \in DOMAIN pools
                   /\ last'.resource \in DOMAIN pools[last'.owner].vaults
                   /\ is_some(last'.quantity)
                        => /\ to_amount(unwrap(last'.quantity))
                                <= vault_amount(last'.resource,
                                     pools[last'.owner].vaults[last'.resource])
                           /\ named_ids(unwrap(last'.quantity))
                                \subseteq pools[last'.owner]
                                             .vaults[last'.resource].ids]_vars

\* C17 witness: bob locked a fee on his own pool while alice's pool holds
\* funds of both resources.
OwnerOperationsStayInPoolWitness ==
    /\ last.op = "subsidize" /\ last.err = "ok" /\ last.owner = "bob"
    /\ asked = Fungible(1)
    /\ read_funds("alice", XRD) > 0 /\ read_funds("alice", NFT) > 0

(* ------------------------------ C15 ------------------------------------ *)

\* C15 (trust registry): is_nfgid_trusted(owner, c) is true after
\* add_trusted_nfgid(owner, c), false after remove_trusted_nfgid(owner, c)
\* and otherwise what it was before the call, for every pool and every
\* identity, and the same holds of is_resource_trusted with
\* add_trusted_resource / remove_trusted_resource; both are false for a
\* pool that does not exist and before any add; no call removes an entry
\* of a registry.
TrustRegistry ==
    /\ [](\A o \in Owners :
            o \notin DOMAIN pools
               => /\ \A c \in Requestors : ~is_nfgid_trusted(pools, o, c)
                  /\ ~is_resource_trusted(pools, o, CLUB))
    /\ [][/\ \A o \in Owners, c \in Requestors :
                is_nfgid_trusted(pools', o, c) =
                    IF /\ last'.op \in {"add_trusted_nfgid",
                                        "remove_trusted_nfgid"}
                       /\ last'.owner = o /\ last'.resource = c
                    THEN last'.op = "add_trusted_nfgid"
                    ELSE is_nfgid_trusted(pools, o, c)
          /\ \A o \in Owners :
                is_resource_trusted(pools', o, CLUB) =
                    IF /\ last'.op \in {"add_trusted_resource",
                                        "remove_trusted_resource"}
                       /\ last'.owner = o /\ last'.resource = CLUB
                    THEN last'.op = "add_trusted_resource"
                    ELSE is_resource_trusted(pools, o, CLUB)
          /\ \A o \in DOMAIN pools :
                /\ o \in DOMAIN pools'
                /\ DOMAIN pools[o].trusted_nfgids
                      \subseteq DOMAIN pools'[o].trusted_nfgids
                /\ DOMAIN pools[o].trusted_res
                      \subseteq DOMAIN pools'[o].trusted_res]_vars

\* C15 witness: alice trusted an identity and then distrusted it, the
\* entry is still in her registry, and she trusts the resource of that
\* identity while bob trusts the identity and not the resource.
TrustRegistryWitness ==
    /\ last.op = "remove_trusted_nfgid" /\ last.owner = "alice"
    /\ <<CLUB, 1>> \in DOMAIN pools["alice"].trusted_nfgids
    /\ ~is_nfgid_trusted(pools, "alice", <<CLUB, 1>>)
    /\ is_resource_trusted(pools, "alice", CLUB)
    /\ is_nfgid_trusted(pools, "bob", <<CLUB, 1>>)
    /\ ~is_resource_trusted(pools, "bob", CLUB)

(* ------------------------------ C12 ------------------------------------ *)

\* The requestor of the last deposit_funds call is a badge that the pool
\* trusts neither by its identity nor by its resource.  (deposit_funds
\* changes no registry, so the pool's trust is that of before the call.)
untrusted_requestor ==
    /\ last.op = "deposit_funds" /\ is_some(last.requestor)
    /\ ~is_fungible(unwrap(last.requestor)[1])
    /\ ~is_nfgid_trusted(pools, last.owner, unwrap(last.requestor))
    /\ ~is_resource_trusted(pools, last.owner, unwrap(last.requestor)[1])

\* C12 as stated: a deposit_funds call whose requestor is not trusted by
\* the pool still succeeds and returns no allowance.
UntrustedDepositSucceeds ==
    untrusted_requestor => (last.err = "ok" /\ ~last.returned)

\* C12 corrected: a deposit_funds call whose requestor is not trusted does
\* not succeed; a successful deposit_funds returns an allowance exactly
\* when a requestor was handed in, and then the pool trusts the requestor
\* by its identity or by its resource.
DepositReturnsAllowanceIffRequested ==
    /\ untrusted_requestor => last.err # "ok"
    /\ (last.op = "deposit_funds" /\ last.err = "ok")
          => /\ last.returned <=> is_some(last.requestor)
             /\ last.returned <=> last.allowance \in DOMAIN allowances
             /\ is_some(last.requestor)
                   => \/ is_resource_trusted(pools, last.owner,
                                             unwrap(last.requestor)[1])
                      \/ is_nfgid_trusted(pools, last.owner,
                                          unwrap(last.requestor))

\* C12 witness: a deposit that asked for an allowance was refused before
\* the pool existed.
DepositReturnsAllowanceIffRequestedWitness ==
    /\ untrusted_requestor /\ last.err = "2013"
    /\ pools = << >>

(* ------------------------------ C13 ------------------------------------ *)

\* C13: a deposit_funds call whose requestor is a badge that the pool (as
\* it is before the call, existing or not) trusts neither by identity nor
\* by resource fails with 2013, and only such a call does; the call mints
\* no allowance, deposits nothing and does not create the pool.
UntrustedDepositFails ==
    [][(last'.op = "deposit_funds" /\ is_some(last'.requestor)
          /\ ~is_fungible(unwrap(last'.requestor)[1]))
        => LET o == last'.owner
               requestor == unwrap(last'.requestor)
               untrusted == /\ ~is_nfgid_trusted(pools, o, requestor)
                            /\ ~is_resource_trusted(pools, o, requestor[1])
           IN /\ untrusted <=> last'.err = "2013"
              /\ untrusted => UNCHANGED <<pools, allowances, burned>>]_vars

\* C13 witness: after alice trusted one badge and her pool was funded, a
\* deposit asking for an allowance with another badge of the same
\* resource failed with 2013.
UntrustedDepositFailsWitness ==
    /\ last.op = "deposit_funds" /\ last.err = "2013"
    /\ last.requestor = Some(<<CLUB, 2>>)
    /\ is_nfgid_trusted(pools, "alice", <<CLUB, 1>>)
    /\ read_funds("alice", XRD) > 0

(* ------------------------------ C14 ------------------------------------ *)

\* C14 (automatic allowance): the allowance deposit_funds returns to a
\* trusted requestor is a new Allowance NFT of the pool, Accumulating,
\* valid from 0 without end, for the resource of the bucket, with
\* max_amount Fungible(amount of the bucket) or NonFungible(the ids of
\* the bucket, no count).  Every successful consumption of such an
\* allowance takes no more than its max_amount and, of a non-fungible
\* resource, only ids its max_amount names; it burns the allowance when
\* it takes all of it and otherwise lowers its max_amount by what it took.
AutoAllowance ==
    /\ [][(last'.op = "deposit_funds" /\ last'.err = "ok"
             /\ is_some(last'.requestor))
           => LET id == last'.allowance
                  funds == unwrap(last'.bucket)
                  o == last'.owner
              IN /\ id \notin DOMAIN allowances \cup burned
                 /\ DOMAIN allowances' = DOMAIN allowances \cup {id}
                 /\ \A x \in DOMAIN allowances : allowances'[x] = allowances[x]
                 /\ allowances'[id].life_cycle = Accumulating
                 /\ allowances'[id].valid_from = 0
                 /\ allowances'[id].valid_until = None
                 /\ allowances'[id].for_resource = funds.resource
                 /\ allowances'[id].escrow_pool = <<ThisEscrow, o>>
                 /\ allowances'[id].resource_address
                       = pools'[o].allowance_badge_res
                 /\ allowances'[id].max_amount =
                       Some(IF is_fungible(funds.resource)
                            THEN Fungible(funds.amount)
                            ELSE NonFungible(Some(funds.ids), None))]_vars
    /\ [][(last'.op = "withdraw_with_allowance" /\ last'.err = "ok")
           => LET id == last'.allowance
                  max == unwrap(unwrap(last'.nfdata).max_amount)
                  q == unwrap(last'.quantity)
                  b == unwrap(last'.bucket)
              IN /\ bucket_amount(b) = to_amount(q)
                 /\ to_amount(q) <= to_amount(max)
                 /\ ~is_fungible(b.resource) => b.ids \subseteq named_ids(max)
                 /\ IF to_amount(q) = to_amount(max)
                    THEN id \in burned' /\ id \notin DOMAIN allowances'
                    ELSE /\ id \in DOMAIN allowances' /\ id \notin burned'
                         /\ to_amount(unwrap(allowances'[id].max_amount))
                               = to_amount(max) - to_amount(q)
                         /\ [allowances'[id] EXCEPT !.max_amount = Some(max)]
                               = unwrap(last'.nfdata)]_vars

\* C14 witness: the allowance returned for a deposit of two ids was used
\* for one id and then for the other, which burned it.
AutoAllowanceWitness ==
    /\ last.op = "withdraw_with_allowance" /\ last.err = "ok"
    /\ pre.max_amount = Some(NonFungible(Some({MaxId}), None))
    /\ asked = NonFungible(Some({MaxId}), None)
    /\ last.allowance \in burned
    /\ read_funds("alice", NFT) > 0

(* ------------------------------ C16 ------------------------------------ *)

\* C16 (atomic failure): a transaction that fails changes neither the
\* pools nor any Allowance NFT; in particular after a consumption that
\* failed, in use_allowance or in the vault operation that follows it,
\* the allowance handed in exists, is not burned and has the data it had
\* before the call.
FailureChangesNothing ==
    /\ [][last'.err # "ok"
            => UNCHANGED <<pools, allowances, burned, now, used>>]_vars
    /\ []((consumption /\ last.err # "ok")
            => /\ last.allowance \in DOMAIN allowances
               /\ last.allowance \notin burned
               /\ allowances[last.allowance] = pre)

\* C16 witness: a OneOff allowance passed use_allowance, the withdrawal
\* then failed because the pool has no vault of the resource, and the
\* allowance is still there.
FailureChangesNothingWitness ==
    /\ last.op = "withdraw_with_allowance" /\ last.err = "resource not found"
    /\ pre.life_cycle = OneOff
    /\ last.allowance \in DOMAIN allowances
    /\ read_funds("alice", XRD) > 0

(* ------------------------------ C18 ------------------------------------ *)

\* C18 (an allowance is bound to its pool): a withdraw_with_allowance or
\* subsidize_with_allowance succeeds only with an Allowance NFT whose data
\* names this Escrow and whose resource is the allowance_badge_res of the
\* pool its data names; the call then lowers, or leaves, only the vault
\* of the allowance's for_resource in that pool, and changes no other
\* vault and no other pool.
AllowanceBoundToPool ==
    [][(last'.op \in {"withdraw_with_allowance", "subsidize_with_allowance"}
          /\ last'.err = "ok")
        => LET a == unwrap(last'.nfdata)
               o == a.escrow_pool[2]
               r == a.for_resource
           IN /\ a.escrow_pool[1] = ThisEscrow
              /\ o \in DOMAIN pools
              /\ a.resource_address = pools[o].allowance_badge_res
              /\ r \in DOMAIN pools[o].vaults
              /\ DOMAIN pools' = DOMAIN pools
              /\ vault_amount(r, pools'[o].vaults[r])
                    <= vault_amount(r, pools[o].vaults[r])
              /\ \A p \in DOMAIN pools :
                    /\ DOMAIN pools'[p].vaults = DOMAIN pools[p].vaults
                    /\ \A x \in DOMAIN pools[p].vaults :
                          (p # o \/ x # r)
                              => pools'[p].vaults[x] = pools[p].vaults[x]]_vars

\* C18 witness: an allowance of bob's pool took XRD from bob's pool, while
\* an NFT forged to name bob's pool exists and alice's pool holds XRD.
AllowanceBoundToPoolWitness ==
    /\ last.op = "withdraw_with_allowance" /\ last.err = "ok"
    /\ pre.escrow_pool = <<ThisEscrow, "bob">> /\ pre.for_resource = XRD
    /\ \E id \in DOMAIN allowances :
          /\ allowances[id].resource_address = <<"forged", "bob">>
          /\ allowances[id].escrow_pool = <<ThisEscrow, "bob">>
    /\ read_funds("alice", XRD) > 0

(* ---------------------------------- C19 -------------------------------- *)

\* The amount mint_allowance was asked for, when one was given.
supplied_amount(max_quantity) ==
    IF is_none(max_quantity) THEN 0
    ELSE IF unwrap(max_quantity).tag = "Fungible"
    THEN unwrap(max_quantity).dec
    ELSE unwrap_or_default(unwrap(max_quantity).amount)

\* Every allowance names a pool that exists and is an NFT of that pool's
\* allowance resource, and no two pools have the same allowance resource.
one_resource_per_pool ==
    /\ \A a \in DOMAIN allowances :
           /\ allowances[a].escrow_pool[1] = ThisEscrow
           /\ allowances[a].escrow_pool[2] \in DOMAIN pools
           /\ allowances[a].resource_address =
                  pools[allowances[a].escrow_pool[2]].allowance_badge_res
    /\ \A o1, o2 \in DOMAIN pools :
           pools[o1].allowance_badge_res = pools[o2].allowance_badge_res
               => o1 = o2

\* C19: mint_allowance fails exactly when the max_quantity supplied is
\* negative, and then changes nothing; otherwise it creates the owner's
\* pool, empty, if there was none, and adds one new allowance that names
\* that pool and has exactly the valid_until, valid_from, life_cycle,
\* for_resource and max_amount supplied, leaving every other pool, every
\* vault and every existing allowance as it was; at all times all the
\* allowances of a pool are NFTs of that pool's one allowance resource.
MintExact ==
    /\ []one_resource_per_pool
    /\ [][last'.op = "mint_allowance" =>
            LET args == unwrap(last'.nfdata)
                owner == last'.owner
                id == last'.allowance
            IN /\ (last'.err # "ok") <=>
                      (supplied_amount(args.max_quantity) < 0)
               /\ last'.err # "ok" =>
                      /\ last'.err = "max_amount cannot be negative"
                      /\ UNCHANGED <<pools, allowances, burned>>
               /\ last'.err = "ok" =>
                      /\ id \notin DOMAIN allowances \cup burned
                      /\ DOMAIN allowances' = DOMAIN allowances \cup {id}
                      /\ \A a \in DOMAIN allowances :
                             allowances'[a] = allowances[a]
                      /\ allowances'[id].escrow_pool = <<ThisEscrow, owner>>
                      /\ allowances'[id].valid_until = args.valid_until
                      /\ allowances'[id].valid_from = args.valid_from
                      /\ allowances'[id].life_cycle = args.life_cycle
                      /\ allowances'[id].for_resource = args.for_resource
                      /\ allowances'[id].max_amount = args.max_quantity
                      /\ DOMAIN pools' = DOMAIN pools \cup {owner}
                      /\ \A o \in DOMAIN pools : pools'[o] = pools[o]
                      /\ owner \notin DOMAIN pools =>
                             /\ pools'[owner].vaults = << >>
                             /\ pools'[owner].trusted_nfgids = << >>
                             /\ pools'[owner].trusted_res = << >>
                      /\ burned' = burned
       ]_vars

\* C19 witness: bob's first mint has created bob's pool, empty, beside
\* alice's pool with its funds and the allowance alice had minted, and the
\* allowance is not valid from the start.
MintExactWitness ==
    /\ last.op = "mint_allowance"
    /\ last.err = "ok"
    /\ last.owner = "bob"
    /\ unwrap(last.nfdata).valid_from = 1
    /\ "bob" \in DOMAIN pools
    /\ pools["bob"].vaults = << >>
    /\ "alice" \in DOMAIN pools
    /\ XRD \in DOMAIN pools["alice"].vaults
    /\ \E a \in DOMAIN allowances :
           allowances[a].escrow_pool = <<ThisEscrow, "alice">>
    /\ allowances[last.allowance].escrow_pool = <<ThisEscrow, "bob">>

(* ---------------------------------- C20 -------------------------------- *)

\* The named ids of a quantity, or all ids when it names none.
ids_allowed(q) == IF q.tag = "NonFungible" /\ is_some(q.nflids) THEN unwrap(q.nflids) ELSE NfIds

\* max_amount `new` allows no more than `old`: anything is no larger than
\* no limit; otherwise the numeric amount is not larger and the named ids
\* are a subset of the old ones.
no_larger(new, old) ==
    \/ is_none(old)
    \/ /\ is_some(new)
       /\ unwrap(new).tag = unwrap(old).tag
       /\ IF unwrap(old).tag = "Fungible"
          THEN unwrap(new).dec <= unwrap(old).dec
          ELSE /\ unwrap(new).nflids = None <=> unwrap(old).nflids = None
               /\ ids_allowed(unwrap(new)) \subseteq ids_allowed(unwrap(old))
               /\ unwrap(new).amount = None <=> unwrap(old).amount = None
               /\ unwrap_or_default(unwrap(new).amount)
                      <= unwrap_or_default(unwrap(old).amount)

\* The numeric amount of a max_amount, when it has one.
numeric_amount(max_amount) ==
    IF is_none(max_amount) THEN None
    ELSE IF unwrap(max_amount).tag = "Fungible"
    THEN Some(unwrap(max_amount).dec)
    ELSE unwrap(max_amount).amount

\* C20: a successful reduce_allowance_to_amount or
\* reduce_allowance_by_nflids changes nothing but that allowance's
\* max_amount, which is no larger than before; a new_max above the amount
\* the allowance has fails with 2000 (Fungible) or 2001 (NonFungible), a
\* negative new_max fails with 2003, and a failed call changes nothing.
ReduceNeverGrows ==
    [][last'.op \in {"reduce_allowance_to_amount",
                     "reduce_allowance_by_nflids"} =>
          LET id == last'.allowance
              old == unwrap(last'.nfdata)
              wanted == unwrap(last'.quantity)
          IN /\ id \in DOMAIN allowances
             /\ old = allowances[id]
             /\ UNCHANGED <<pools, burned, now>>
             /\ DOMAIN allowances' = DOMAIN allowances
             /\ \A a \in DOMAIN allowances \ {id} :
                    allowances'[a] = allowances[a]
             /\ allowances'[id] =
                    [old EXCEPT !.max_amount = allowances'[id].max_amount]
             /\ last'.err = "ok" =>
                    no_larger(allowances'[id].max_amount, old.max_amount)
             /\ last'.err # "ok" => allowances' = allowances
             /\ last'.op = "reduce_allowance_to_amount" =>
                    /\ (wanted.dec < 0) <=> (last'.err = "2003")
                    /\ last'.err = "ok" =>
                           numeric_amount(allowances'[id].max_amount)
                               = Some(wanted.dec)
                    /\ /\ wanted.dec >= 0
                       /\ is_some(numeric_amount(old.max_amount))
                       /\ wanted.dec > unwrap(numeric_amount(old.max_amount))
                       => last'.err = IF unwrap(old.max_amount).tag = "Fungible"
                                      THEN "2000" ELSE "2001"
             /\ last'.op = "reduce_allowance_by_nflids" /\ last'.err = "ok" =>
                    ids_allowed(unwrap(allowances'[id].max_amount))
                        = ids_allowed(unwrap(old.max_amount))
                              \ unwrap(wanted.nflids)
      ]_vars

\* C20 witness: a NonFungible allowance whose count had been lowered has
\* refused a raise of that count with 2001 and kept its max_amount.
ReduceNeverGrowsWitness ==
    /\ last.op = "reduce_allowance_to_amount"
    /\ last.err = "2001"
    /\ unwrap(last.quantity).dec = MaxAmount
    /\ last.allowance \in DOMAIN allowances
    /\ allowances[last.allowance].max_amount
           = Some(NonFungible(Some(NfIds), Some(1)))

(* ---------------------------------- C21 -------------------------------- *)

\* C21 as stated: reduce_allowance_to_amount fails when the allowance has
\* no max_amount, fails with 2002 when its max_amount is a NonFungible
\* quantity without a numeric amount, and in both cases leaves the
\* allowance as it was.
ReduceUnboundedFails ==
    [][last'.op = "reduce_allowance_to_amount" =>
          LET old == unwrap(last'.nfdata)
              unlimited == is_none(old.max_amount)
              uncounted == /\ is_some(old.max_amount)
                           /\ unwrap(old.max_amount).tag = "NonFungible"
                           /\ is_none(unwrap(old.max_amount).amount)
          IN /\ unlimited \/ uncounted =>
                    /\ last'.err # "ok"
                    /\ allowances' = allowances
             /\ uncounted /\ unwrap(last'.quantity).dec >= 0 =>
                    last'.err = "2002"
      ]_vars

(* ---------------------------------- C22 -------------------------------- *)

\* C22: on a NonFungible allowance a successful reduce_allowance_to_amount
\* sets the numeric amount to new_max and keeps the named ids;
\* reduce_allowance_by_nflids fails with 2005 on a Fungible allowance, with
\* 2006 on a NonFungible allowance that names no ids, with 2007 on an
\* allowance without max_amount, and otherwise succeeds, removes exactly
\* the listed ids that were named (the other listed ids are ignored) and
\* keeps the numeric amount.
ReduceFrame ==
    [][last'.op \in {"reduce_allowance_to_amount",
                     "reduce_allowance_by_nflids"} =>
          LET id == last'.allowance
              old == unwrap(last'.nfdata).max_amount
              wanted == unwrap(last'.quantity)
              new == allowances'[id].max_amount
          IN /\ /\ last'.op = "reduce_allowance_to_amount"
                /\ last'.err = "ok"
                /\ is_some(old)
                /\ unwrap(old).tag = "NonFungible"
                => new = Some(NonFungible(unwrap(old).nflids,
                                          Some(wanted.dec)))
             /\ last'.op = "reduce_allowance_by_nflids" =>
                    /\ last'.err =
                         IF is_none(old) THEN "2007"
                         ELSE IF unwrap(old).tag = "Fungible" THEN "2005"
                         ELSE IF is_none(unwrap(old).nflids) THEN "2006"
                         ELSE "ok"
                    /\ last'.err # "ok" => allowances' = allowances
                    /\ last'.err = "ok" =>
                         LET had == unwrap(unwrap(old).nflids)
                             listed == unwrap(wanted.nflids)
                         IN new = Some(NonFungible(
                                     Some(had \ (listed \cap had)),
                                     unwrap(old).amount))
      ]_vars

\* C22 witness: from an allowance with a numeric amount whose id 1 had
\* already been removed, all ids were listed for removal: the ids that
\* were left are gone, id 1 was ignored, the amount is still there.
ReduceFrameWitness ==
    /\ last.op = "reduce_allowance_by_nflids"
    /\ last.err = "ok"
    /\ unwrap(last.nfdata).max_amount
           = Some(NonFungible(Some(NfIds \ {1}), Some(MaxAmount)))
    /\ unwrap(last.quantity).nflids = Some(NfIds)
    /\ allowances[last.allowance].max_amount
           = Some(NonFungible(Some({}), Some(MaxAmount)))

(* ---------------------------------- C23 -------------------------------- *)

\* C23 as stated: every allowance with a max_amount carries a Fungible
\* quantity only for a fungible for_resource and a NonFungible quantity
\* only for a non-fungible one.
QuantityMatchesResource ==
    \A a \in DOMAIN allowances :
        is_some(allowances[a].max_amount) =>
            (unwrap(allowances[a].max_amount).tag = "Fungible"
                <=> is_fungible(allowances[a].for_resource))

\* ---------------------------------------------------------------------
\* Market orders of the MockDex

\* The transaction is a market order that went through.
traded == last'.op \in {"market_buy_direct", "market_sell_direct"}
          /\ last'.err = "ok"

\* The side of the market order of the transaction, the book it walked
\* before and after, and the resources it paid with and obtained.
order_side == IF last'.op = "market_buy_direct" THEN "buy" ELSE "sell"
book_before == IF order_side = "buy" THEN dexes[last'.dex].sell_book
               ELSE dexes[last'.dex].buy_book
book_after == IF order_side = "buy" THEN dexes'[last'.dex].sell_book
              ELSE dexes'[last'.dex].buy_book
paid_resource == IF order_side = "buy" THEN XRD ELSE MEME
bought_resource == IF order_side = "buy" THEN MEME ELSE XRD

\* The amount of `resource` in the pool of `owner` among pools `ps`.
pool_funds(ps, owner, resource) ==
    IF owner \in DOMAIN ps /\ resource \in DOMAIN ps[owner].vaults
    THEN ps[owner].vaults[resource].amount ELSE 0

\* The fills of the transaction's market order, and their indices.
fills == last'.fills
filled == DOMAIN last'.fills

\* C25: a market order that goes through conserves both resources: the
\* funds handed in are what the makers are paid plus what comes back to
\* the taker, the purchase is the sum of what was taken from the
\* offerings, every maker is paid the amount taken from its offering at
\* its own price (times the price for a buy, divided by it for a sell),
\* and the components hold exactly that much more of the one resource and
\* that much less of the other.
MarketOrderConserves ==
    [][traded =>
        /\ last'.handed_in.amount
             = sum_of([i \in filled |-> fills[i].paid]) + last'.remainder
        /\ last'.purchased = sum_of([i \in filled |-> fills[i].taken])
        /\ \A i \in filled :
              /\ fills[i].paid = IF order_side = "buy"
                                 THEN fills[i].taken * fills[i].price
                                 ELSE fills[i].taken \div fills[i].price
              /\ fills[i].price = book_before[fills[i].price].price_in_xrd
              /\ fills[i].kind = "Direct" =>
                    book_before[fills[i].price].vault.amount
                    - (IF fills[i].price \in DOMAIN book_after
                       THEN book_after[fills[i].price].vault.amount ELSE 0)
                    = fills[i].taken
        /\ held_in(pools', dexes', paid_resource)
             = held_in(pools, dexes, paid_resource)
               + last'.handed_in.amount - last'.remainder
        /\ held_in(pools', dexes', bought_resource)
             = held_in(pools, dexes, bought_resource)
               - (IF is_some(last'.purchase_back)
                  THEN unwrap(last'.purchase_back) ELSE 0)
    ]_vars

\* C25 witness: a market buy was filled by two offerings at different
\* prices, the cheaper one first, the dearer one at a price above 1.
MarketOrderConservesWitness ==
    /\ last.op = "market_buy_direct" /\ last.err = "ok"
    /\ Len(last.fills) = 2
    /\ \A i \in 1..2 : last.fills[i].taken > 0
    /\ last.fills[2].price > 1
    /\ last.purchased = 2

\* The panics of the Escrow that a lack of funds at the source of an
\* allowance-backed Offering sets off.
ShortOfFunds == {"pool not found", "resource not found",
                 "insufficient balance"}

\* C26: a market order never fails because the book has less to give than
\* the order asks for: it does not end in a panic for missing funds; when
\* it goes through, each Offering gave what the order asked of it or all
\* that was available to it, the unspent funds come back, and an order on
\* an empty book gets all its funds back and an empty purchase.
NeverShortOfLiquidity ==
    [][last'.op \in {"market_buy_direct", "market_sell_direct"} =>
        /\ last'.err \notin ShortOfFunds
        /\ last'.err = "ok" =>
            /\ last'.remainder
                 = last'.handed_in.amount
                   - sum_of([i \in filled |-> fills[i].paid])
            /\ book_before = << >> =>
                  /\ last'.remainder = last'.handed_in.amount
                  /\ last'.purchased = 0
    ]_vars

\* The Offering at the price of fill i was spent by the fill: its direct
\* vault was emptied, or its Allowance NFT was burned by the withdrawal.
spent_by(i) ==
    IF fills[i].kind = "Direct" THEN fills[i].held - fills[i].taken = 0
    ELSE fills[i].allowance \subseteq burned' \ burned

\* C28: after a market order that goes through, an Offering it visited is
\* gone from the book exactly when its direct vault became empty or its
\* allowance was burned by the withdrawal, its vault going to the garbage
\* heap; otherwise it is still at its price point, a direct vault with
\* what the order left, an allowance vault with the same live Allowance
\* NFT.  Offerings the order did not reach, and the other book, are
\* untouched.
SpentOfferingsLeave ==
    [][traded =>
        /\ \A i \in filled :
              LET p == fills[i].price
              IN /\ fills[i].removed <=> spent_by(i)
                 /\ p \notin DOMAIN book_after <=> spent_by(i)
                 /\ p \in DOMAIN book_after =>
                       /\ book_after[p].actor = book_before[p].actor
                       /\ book_after[p].kind = book_before[p].kind
                       /\ book_after[p].vault.ids = book_before[p].vault.ids
                       /\ book_after[p].vault.ids \subseteq DOMAIN allowances'
                       /\ book_after[p].vault.amount
                            = book_before[p].vault.amount
                              - (IF fills[i].kind = "Direct"
                                 THEN fills[i].taken ELSE 0)
                       /\ fills[i].kind = "Direct" =>
                             book_after[p].vault.amount > 0
        /\ \A p \in DOMAIN book_before \ {fills[i].price : i \in filled} :
              p \in DOMAIN book_after /\ book_after[p] = book_before[p]
        /\ DOMAIN book_after \subseteq DOMAIN book_before
        /\ Len(dexes'[last'.dex].garbage_heap)
             = Len(dexes[last'.dex].garbage_heap)
               + Cardinality({i \in filled : spent_by(i)})
        /\ (IF order_side = "buy" THEN dexes'[last'.dex].buy_book
            ELSE dexes'[last'.dex].sell_book)
           = (IF order_side = "buy" THEN dexes[last'.dex].buy_book
              ELSE dexes[last'.dex].sell_book)
    ]_vars

\* C28 witness: one market order emptied a direct Offering, which left the
\* book, and drew on an allowance that survived, whose Offering stayed.
SpentOfferingsLeaveWitness ==
    /\ last.op \in {"market_buy_direct", "market_sell_direct"}
    /\ last.err = "ok"
    /\ \E i, j \in DOMAIN last.fills :
          /\ last.fills[i].kind = "Direct" /\ last.fills[i].removed
          /\ last.fills[j].kind = "FromEscrow" /\ ~last.fills[j].removed
          /\ last.fills[j].taken > 0

\* What the fills of the transaction's market order owe to `maker`, for
\* limit orders that named a payout component (to_pool) or did not.
proceeds_of(maker, to_pool) ==
    sum_of([i \in {k \in filled :
                     /\ fills[k].actor.id_badge = maker
                     /\ is_some(fills[k].actor.escrow_payout_component)
                        = to_pool} |-> fills[i].paid])

\* What the fills of the transaction's market order took from the pool of
\* `owner` through its allowances.
drawn_from_pool(owner) ==
    sum_of([i \in {k \in filled :
                     /\ fills[k].kind = "FromEscrow"
                     /\ \E id \in fills[k].allowance :
                           allowances[id].escrow_pool = <<ThisEscrow, owner>>}
               |-> fills[i].taken])

\* The payout stores of the dex of the transaction's market order for the
\* resource it pays the makers in, before and after.
payouts_before == IF order_side = "buy" THEN dexes[last'.dex].payouts_xrd
                  ELSE dexes[last'.dex].payouts_meme
payouts_after == IF order_side = "buy" THEN dexes'[last'.dex].payouts_xrd
                 ELSE dexes'[last'.dex].payouts_meme

\* The amount in the payout vault of `maker` in `vaults`.
payout_funds(vaults, maker) ==
    IF maker \in DOMAIN vaults THEN vaults[maker] ELSE 0

\* C29: in a market order that goes through, the proceeds of the fills of
\* a maker whose limit order named a payout component are added to the
\* maker's pool in the Escrow, those of a maker whose limit order named
\* none are added to the dex's payout vault under the maker's identity,
\* and nothing else is; the purchase is handed back to a taker that names
\* no payout component, and is otherwise added to the taker's pool with
\* nothing handed back.
ProceedsRouted ==
    [][traded =>
        /\ \A o \in DOMAIN pools' \cup DOMAIN payouts_after :
              /\ pool_funds(pools', o, paid_resource)
                   = pool_funds(pools, o, paid_resource)
                     + proceeds_of(o, TRUE)
              /\ payout_funds(payouts_after, o)
                   = payout_funds(payouts_before, o) + proceeds_of(o, FALSE)
              /\ pool_funds(pools', o, bought_resource)
                   = pool_funds(pools, o, bought_resource)
                     - drawn_from_pool(o)
                     + (IF is_some(last'.payout) /\ last'.trader = Some(o)
                        THEN last'.purchased ELSE 0)
        /\ (IF order_side = "buy" THEN dexes'[last'.dex].payouts_meme
            ELSE dexes'[last'.dex].payouts_xrd)
           = (IF order_side = "buy" THEN dexes[last'.dex].payouts_meme
              ELSE dexes[last'.dex].payouts_xrd)
        /\ is_none(last'.payout) =>
              last'.purchase_back = Some(last'.purchased)
        /\ is_some(last'.payout) => is_none(last'.purchase_back)
    ]_vars

\* C29 witness: one market order of a taker with a payout component paid
\* a maker into its pool and another into the dex's payout vault.
ProceedsRoutedWitness ==
    /\ last.op \in {"market_buy_direct", "market_sell_direct"}
    /\ last.err = "ok"
    /\ is_some(last.payout) /\ last.purchased > 0
    /\ \E i, j \in DOMAIN last.fills :
          /\ is_some(last.fills[i].actor.escrow_payout_component)
          /\ is_none(last.fills[j].actor.escrow_payout_component)
          /\ last.fills[i].paid > 0 /\ last.fills[j].paid > 0

\* The funds the market order of the transaction still had in hand when
\* it came to the Offering of fill i.
in_hand(i) ==
    last'.handed_in.amount
    - sum_of([k \in {j \in filled : j < i} |-> fills[k].paid])

\* What those funds buy at the price of fill i.
buys_at(i) ==
    IF order_side = "buy" THEN in_hand(i) \div fills[i].price
    ELSE in_hand(i) * fills[i].price

\* The Allowance NFT of fill i, as it was before the transaction.
allowance_of(i) == allowances[CHOOSE id \in fills[i].allowance : TRUE]

\* The balance of the pool of the allowance of fill i when the order came
\* to it: what the pool held before the transaction less what the earlier
\* fills of the order drew from it.
balance_at(i) ==
    pool_funds(pools, allowance_of(i).escrow_pool[2], bought_resource)
    - sum_of([k \in {j \in filled :
                       /\ j < i
                       /\ fills[j].kind = "FromEscrow"
                       /\ allowance_of(j).escrow_pool
                          = allowance_of(i).escrow_pool}
                |-> fills[k].taken])

\* The most the Offering of fill i could supply: the funds in its direct
\* vault, or the balance of the pool within the cap of the allowance.
could_supply(i) ==
    IF fills[i].kind = "Direct" THEN book_before[fills[i].price].vault.amount
    ELSE IF is_none(allowance_of(i).max_amount) THEN balance_at(i)
    ELSE min(to_amount(unwrap(allowance_of(i).max_amount)), balance_at(i))

\* C27: what a market order withdraws from the maker's pool at an
\* allowance-backed Offering is the least of what its funds in hand buy
\* at the Offering's price, the cap of the allowance (none if max_amount
\* is None) and the balance of the pool, whatever the ledger time.
AllowanceFillIsTheMinimum ==
    [][traded =>
        \A i \in filled :
            fills[i].kind = "FromEscrow" =>
                fills[i].taken = min(buys_at(i), could_supply(i))
    ]_vars

\* C24: a market buy walks the sell book by ascending price and a market
\* sell the buy book by descending price, in one pass over the best
\* prices of the book, and an Offering gets a fill only when every
\* Offering at a better price gave all it could supply.
BestPriceFirst ==
    [][traded =>
        /\ \A i, j \in filled :
              i < j => IF order_side = "buy"
                       THEN fills[i].price < fills[j].price
                       ELSE fills[i].price > fills[j].price
        /\ \A j \in filled, p \in DOMAIN book_before :
              (IF order_side = "buy" THEN p < fills[j].price
               ELSE p > fills[j].price)
              => \E i \in filled : i < j /\ fills[i].price = p
        /\ \A i, j \in filled :
              i < j /\ fills[j].taken > 0 => fills[i].taken = could_supply(i)
    ]_vars

\* Every pool that an Offering of `book` draws on through an allowance.
pools_behind(book) ==
    {allowances[id].escrow_pool[2] :
        id \in UNION {book[p].vault.ids : p \in DOMAIN book}}

\* Several Allowance NFTs lying in Offerings draw on the pool of `owner`.
shared(owner) ==
    Cardinality({id \in in_dex_vaults :
                    allowances[id].escrow_pool[2] = owner}) >= 2

\* C30: market orders on books whose allowance-backed Offerings, on one
\* MockDex or on several, draw on the same pool are served one after the
\* other from what the pool holds at the time: an order never fails for
\* lack of funds in the pool, every fill takes no more than the pool
\* still holds, and the pool is left with what it held less what the
\* order's fills drew.
SharedPoolServed ==
    [][(/\ last'.op \in {"market_buy_direct", "market_sell_direct"}
        /\ \E o \in pools_behind(book_before) : shared(o)) =>
        /\ last'.err \notin ShortOfFunds
        /\ last'.err = "ok" =>
              /\ \A i \in filled :
                    fills[i].kind = "FromEscrow" =>
                        fills[i].taken <= balance_at(i)
              /\ \A o \in pools_behind(book_before) :
                    /\ drawn_from_pool(o)
                         <= pool_funds(pools, o, bought_resource)
                    /\ pool_funds(pools', o, bought_resource)
                         = pool_funds(pools, o, bought_resource)
                           - drawn_from_pool(o)
    ]_vars

(* ------------------------------ C31 ------------------------------------ *)

\* What has left the vault of `resource` of Alice's pool since it was
\* funded (with MaxAmount XRD, or with all the non-fungibles).
withdrawn_in_all(resource) ==
    IF "alice" \notin DOMAIN pools
       \/ resource \notin DOMAIN pools["alice"].vaults THEN 0
    ELSE IF is_fungible(resource)
    THEN MaxAmount - pools["alice"].vaults[resource].amount
    ELSE Cardinality(NfIds \ pools["alice"].vaults[resource].ids)

\* C31: what is withdrawn from a pool through one Accumulating allowance
\* with a bounded max_amount, over all the consumptions of its life, never
\* exceeds the total of the max_amount it was minted with.
LifeTotalBounded ==
    \A r \in Resources : withdrawn_in_all(r) <= LifeCap

(* ------------------------------ C32 ------------------------------------ *)

\* The panics of the life-cycle update of use_allowance.
LifeCycleFailures ==
    {"unwrap on None: max_nflids", "unwrap on None: max_amount",
     "amount to take must be whole number",
     "attempt to subtract with overflow"}

\* The last consumption got as far as the life-cycle update: the three
\* assertions of use_allowance (pool reference, validity window,
\* sufficiency) come before the update, so a request that ends in "ok"
\* or in a panic of the update has passed all three.
validated ==
    /\ consumption
    /\ pre.escrow_pool[1] = ThisEscrow
    /\ check_validity(pre, now) = "ok"
    /\ last.err \in {"ok"} \cup LifeCycleFailures

\* C32: a consumption request that passes the three validations goes
\* through the life-cycle update without failing, whatever the life cycle
\* and the shape of max_amount.
ValidatedNeverFailsUpdate ==
    validated => last.err \notin LifeCycleFailures

(* ------------------------------ C33 ------------------------------------ *)

\* C33: a Repeating allowance with min_delay Some(0) is not consumed twice
\* at the same ledger time: it has never been used successfully for the
\* second time at the time of its last use.
RepeatingZeroDelayOncePerTime ==
    \A id \in DOMAIN used :
        (/\ id \in DOMAIN allowances
         /\ allowances[id].life_cycle = Repeating(Some(0)))
            => used[id].times = 1

(* ---------------------------------- C34 -------------------------------- *)

\* C34: reduce_allowance_to_amount succeeds whenever new_max is not
\* negative and not above the amount the allowance has, for a Fungible and
\* for a NonFungible max_amount alike; with new_max equal to that amount
\* it succeeds and leaves the amount as it was.
ReduceToSameOrLess ==
    [][last'.op = "reduce_allowance_to_amount" =>
          LET old == unwrap(last'.nfdata)
              new_max == unwrap(last'.quantity).dec
              current == numeric_amount(old.max_amount)
          IN (/\ is_some(current)
              /\ 0 <= new_max /\ new_max <= unwrap(current)) =>
                 /\ last'.err = "ok"
                 /\ numeric_amount(allowances'[last'.allowance].max_amount)
                      = Some(new_max)
      ]_vars

(* ---------------------------------- C35 -------------------------------- *)

\* C35: subsidize_with_allowance on an Accumulating allowance lowers its
\* max_amount by the whole amount named in the call, whatever part of it
\* the fees consume (the pool loses between nothing and the amount), and
\* burns the allowance when that leaves nothing; the call fails when the
\* allowance is not for XRD; it fails with 2009 exactly before valid_from,
\* with 2011 exactly after valid_until, and with 2010 only when the window
\* is open, a successful call never naming more than the max_amount.
SubsidyChargesTheAmountNamed ==
    [][last'.op = "subsidize_with_allowance" =>
          LET id == last'.allowance
              old == unwrap(last'.nfdata)
              cap == unwrap(old.max_amount).dec
              open == /\ old.valid_from <= now
                      /\ is_none(old.valid_until)
                         \/ unwrap(old.valid_until) >= now
          IN /\ old = allowances[id]
             /\ last'.err = "2009" <=> ~(old.valid_from <= now)
             /\ last'.err = "2011" <=>
                    /\ old.valid_from <= now
                    /\ is_some(old.valid_until)
                    /\ unwrap(old.valid_until) < now
             /\ last'.err = "2010" => open
             /\ old.for_resource # XRD => last'.err # "ok"
             /\ last'.err = "only XRD can by used for subsidy" =>
                    open /\ old.for_resource # XRD
             /\ last'.err # "ok" => UNCHANGED <<pools, allowances, burned>>
             /\ last'.err = "ok" =>
                   LET amount == unwrap(last'.quantity).dec
                       spent == pool_funds(pools, "alice", XRD)
                                - pool_funds(pools', "alice", XRD)
                   IN /\ open /\ old.for_resource = XRD
                      /\ 0 <= amount /\ amount <= cap
                      /\ 0 <= spent /\ spent <= amount
                      /\ IF cap - amount = 0
                         THEN /\ id \notin DOMAIN allowances'
                              /\ id \in burned'
                              /\ ~last'.returned
                         ELSE /\ allowances'[id] =
                                   [old EXCEPT !.max_amount =
                                       Some(Fungible(cap - amount))]
                              /\ last'.returned
      ]_vars

\* C35 witness: a subsidy of MaxAmount through an Accumulating allowance
\* burned it although the fees consumed less than was named.
SubsidyChargesTheAmountNamedWitness ==
    /\ last.op = "subsidize_with_allowance" /\ last.err = "ok"
    /\ pre.life_cycle = Accumulating
    /\ asked = Fungible(MaxAmount)
    /\ last.allowance \in burned
    /\ pool_funds(pools, "alice", XRD) > 0

(* ---------------------------------- C36 -------------------------------- *)

\* C36: AllowanceNfData::is_valid is true of an Allowance NFT exactly when
\* the time checks of use_allowance pass: valid_from <= now and
\* valid_until absent or >= now.
IsValidAgreesWithUse ==
    \A id \in DOMAIN allowances :
        is_valid(allowances[id], now)
            <=> check_validity(allowances[id], now) = "ok"

(* ---------------------------------- C37 -------------------------------- *)

\* C37: a market order that comes to an allowance-backed Offering whose
\* allowance cannot be used at the time (not yet valid: 2009, which is
\* also what a Repeating allowance inside its min_delay gives; no longer
\* valid: 2011) does not fail for it: it goes on, taking nothing from that
\* Offering.
UnusableAllowanceSuppliesZero ==
    [][last'.op \in {"market_buy_direct", "market_sell_direct"} =>
          /\ last'.err \notin {"2009", "2011"}
          /\ last'.err = "ok" =>
                \A i \in filled :
                    (/\ fills[i].kind = "FromEscrow"
                     /\ check_validity(allowance_of(i), now) # "ok")
                        => fills[i].taken = 0
      ]_vars

(* ---------------------------------- C40 -------------------------------- *)

\* The price points a market order on MockDex `d` removed from its books
\* in the transaction.
removed_from_books(d) ==
    Cardinality(DOMAIN dexes[d].sell_book \ DOMAIN dexes'[d].sell_book)
    + Cardinality(DOMAIN dexes[d].buy_book \ DOMAIN dexes'[d].buy_book)

\* C40: every vault on a garbage_heap is empty, and a garbage_heap only
\* grows, by one vault for every Offering that a market order on that
\* MockDex removes from the book.
GarbageIsEmpty ==
    /\ [](\A d \in Dexes :
            \A i \in DOMAIN dexes[d].garbage_heap :
                /\ dexes[d].garbage_heap[i].amount = 0
                /\ dexes[d].garbage_heap[i].ids = {})
    /\ [][\A d \in Dexes :
            LET heap == dexes[d].garbage_heap
                grown == Len(dexes'[d].garbage_heap) - Len(heap)
            IN /\ grown >= 0
               /\ SubSeq(dexes'[d].garbage_heap, 1, Len(heap)) = heap
               /\ grown = removed_from_books(d)
               /\ grown > 0 =>
                     /\ last'.op \in {"market_buy_direct",
                                      "market_sell_direct"}
                     /\ last'.err = "ok" /\ last'.dex = d
         ]_vars

\* C40 witness: a garbage_heap holds the vault of a direct Offering that
\* was emptied and the vault of an Offering whose allowance was burned,
\* while an Offering that was partly filled is still on the book.
GarbageIsEmptyWitness ==
    \E d \in Dexes :
        /\ Len(dexes[d].garbage_heap) = 2
        /\ last.op \in {"market_buy_direct", "market_sell_direct"}
        /\ last.err = "ok"
        /\ \E i \in DOMAIN last.fills :
              last.fills[i].taken > 0 /\ ~last.fills[i].removed

(* ---------------------------------- C38 -------------------------------- *)

\* What MockDex `dx` holds: the XRD and the MEME of its Offerings and
\* payout vaults, the tokens on its garbage_heap, and the Allowance NFTs
\* in the vaults of its Offerings and on its garbage_heap.
dex_assets(dx) ==
    [xrd |-> sum_of(dx.payouts_xrd)
             + sum_of([p \in DOMAIN dx.buy_book |->
                          dx.buy_book[p].vault.amount]),
     meme |-> sum_of(dx.payouts_meme)
              + sum_of([p \in DOMAIN dx.sell_book |->
                           dx.sell_book[p].vault.amount]),
     garbage |-> sum_of([i \in DOMAIN dx.garbage_heap |->
                            dx.garbage_heap[i].amount]),
     nfts |-> UNION {dx.buy_book[p].vault.ids : p \in DOMAIN dx.buy_book}
              \cup UNION {dx.sell_book[p].vault.ids :
                             p \in DOMAIN dx.sell_book}
              \cup UNION {dx.garbage_heap[i].ids :
                             i \in DOMAIN dx.garbage_heap}]

\* What a limit order that went through put into the MockDex.
put_in ==
    [xrd |-> IF last'.handed_in.resource = XRD
             THEN last'.handed_in.amount ELSE 0,
     meme |-> IF last'.handed_in.resource = MEME
              THEN last'.handed_in.amount ELSE 0,
     nfts |-> last'.handed_in.ids]

\* What the fills of a market order that went through took out of the
\* vaults of the direct Offerings, the proceeds it added to the payout
\* vaults of their makers, and the Allowance NFTs its withdrawals burned.
taken_out ==
    sum_of([i \in {k \in filled : fills[k].kind = "Direct"} |->
               fills[i].taken])

kept_for_makers ==
    sum_of([i \in {k \in filled :
                     is_none(fills[k].actor.escrow_payout_component)} |->
               fills[i].paid])

\* C38: the assets a MockDex holds are what limit orders put in less what
\* market orders took out: a limit order that goes through adds exactly
\* what it hands in, also at a price point that is taken, where the
\* earlier Offering keeps its place and its vault; a market order takes
\* the direct fills out of the resource it buys, adds the proceeds of the
\* makers without payout component to the resource it pays in, and no
\* Allowance NFT leaves the MockDex unless it was burned; nothing else
\* changes what a MockDex holds.
NothingDiscarded ==
    [][\A d \in Dexes :
          LET before == dex_assets(dexes[d])
              after == dex_assets(dexes'[d])
              limit == /\ last'.op \in {"limit_buy_direct", "limit_sell_direct",
                                        "limit_buy_with_escrow",
                                        "limit_sell_with_escrow"}
                       /\ last'.err = "ok" /\ last'.dex = d
              market == traded /\ last'.dex = d
          IN /\ after.garbage = before.garbage
             /\ limit =>
                   /\ after.xrd = before.xrd + put_in.xrd
                   /\ after.meme = before.meme + put_in.meme
                   /\ after.nfts = before.nfts \cup put_in.nfts
                   /\ put_in.nfts \cap before.nfts = {}
             /\ market =>
                   /\ after.xrd = before.xrd
                        + (IF order_side = "buy" THEN kept_for_makers
                           ELSE 0 - taken_out)
                   /\ after.meme = before.meme
                        + (IF order_side = "buy" THEN 0 - taken_out
                           ELSE kept_for_makers)
                   /\ after.nfts \subseteq before.nfts
                   /\ before.nfts \ after.nfts \subseteq burned'
             /\ ~limit /\ ~market => after = before
      ]_vars

\* C38 witness: a limit order came to a price point that already held an
\* Offering with funds, and that Offering is still on the book with its
\* funds.
NothingDiscardedWitness ==
    /\ last.op \in {"limit_sell_direct", "limit_buy_direct"}
    /\ last.err = "vault dropped"
    /\ LET book == IF last.op = "limit_sell_direct"
                   THEN dexes[last.dex].sell_book
                   ELSE dexes[last.dex].buy_book
       IN /\ unwrap(last.price) \in DOMAIN book
          /\ book[unwrap(last.price)].vault.amount = MaxAmount
          /\ last.handed_in.amount = 1

(* ---------------------------------- C39 -------------------------------- *)

\* The codes that precede the messages of the Escrow's panics.
ErrorCodes ==
    {"2000", "2001", "2002", "2003", "2004", "2005", "2006", "2007",
     "2009", "2010", "2011", "2012", "2013"}

\* C39: every transaction the Escrow rejects is rejected with one of its
\* numeric codes, 2000 or above, the rejection of a negative max_quantity
\* at minting among them.
EveryRejectionCoded == last.err \in {"ok"} \cup ErrorCodes

====
